---- MODULE Spec2Model ----
(***************************************************************************)
(* Model of nfx-datatypes: the 128-bit integer Int128 (native and emulated *)
(* backend) and the 96-bit-mantissa Decimal built on it.                   *)
(*                                                                         *)
(* TLC's integers are 32 bits wide, the program's words are 32, 64 and     *)
(* 128 bits wide.  An unsigned word of the program is therefore kept as    *)
(* the little-endian sequence of its bytes without trailing zero bytes     *)
(* (<<>> is 0, <<0, 1>> is 256), so that two words are equal exactly when  *)
(* their sequences are equal.  The operators of the first section are      *)
(* the machine arithmetic on such words.                                   *)
(***************************************************************************)
EXTENDS Integers, Sequences, FiniteSets, TLC

----------------------------------------------------------------------------
(* Machine arithmetic on unsigned words (byte sequences).                  *)

Limb(a, i) == IF i <= Len(a) THEN a[i] ELSE 0

\* TLC evaluates an operator's argument, and a LET definition, where it is
\* first used, and its evaluation is deep when that is inside other such
\* evaluations.  <<a, b, v>>[3] is v with a and b evaluated first, in order.

\* Body(v) with v evaluated first and once:  auto v = ...; Body
Let(v, Body(_)) == <<v, Body(v)>>[2]

MaxLen(a, b) == IF Len(a) > Len(b) THEN Len(a) ELSE Len(b)

\* the sequence of bytes a without its trailing zero bytes, as an explicit sequence
Trim(a) ==
  LET nonzero == {i \in 1..Len(a) : a[i] # 0}
  IN  IF nonzero = {} THEN <<>>
      ELSE SubSeq(a, 1, CHOOSE m \in nonzero : \A k \in nonzero : k <= m)

\* a mod 2^(8n): what a conversion to an n-byte unsigned type keeps
Trunc(a, n) == IF Len(a) <= n THEN a ELSE Trim(SubSeq(a, 1, n))

\* a >> 8n
ShrBytes(a, n) == IF Len(a) <= n THEN <<>> ELSE SubSeq(a, n + 1, Len(a))

\* a << 8n, not truncated
ShlBytes(a, n) == IF a = <<>> THEN a ELSE [i \in 1..n |-> 0] \o a

\* a + b, not truncated.  The carry into byte i is 1 exactly when some lower
\* byte sum exceeds 255 and every byte sum between is 255.
WAdd(a, b) ==
  LET sum(i) == Limb(a, i) + Limb(b, i)
      carry(i) == IF \E j \in 1..(i - 1) :
                       sum(j) > 255 /\ \A k \in (j + 1)..(i - 1) : sum(k) = 255
                  THEN 1 ELSE 0
  IN  <<a, b, Trim([i \in 1..(MaxLen(a, b) + 1) |-> (sum(i) + carry(i)) % 256])>>[3]

\* a - b for a >= b.  The borrow into byte i is 1 exactly when some lower
\* byte of a is less than that of b and the bytes between are equal.
WSub(a, b) ==
  LET borrow(i) == IF \E j \in 1..(i - 1) :
                        Limb(a, j) < Limb(b, j)
                          /\ \A k \in (j + 1)..(i - 1) : Limb(a, k) = Limb(b, k)
                   THEN 1 ELSE 0
  IN  <<a, b, Trim([i \in 1..Len(a) |-> (a[i] - Limb(b, i) - borrow(i)) % 256])>>[3]

\* a < b (unsigned)
WLess(a, b) ==
  <<a, b, \/ Len(a) < Len(b)
          \/ /\ Len(a) = Len(b)
             /\ \E j \in 1..Len(a) : a[j] < b[j] /\ \A k \in (j + 1)..Len(a) : a[k] = b[k]>>[3]

\* -1, 0, 1 as a < b, a = b, a > b (unsigned)
WCmp(a, b) == IF WLess(a, b) THEN -1 ELSE IF WLess(b, a) THEN 1 ELSE 0

\* the sum of f(lo) .. f(hi), by halves
RECURSIVE SumOver(_, _, _)
SumOver(f(_), lo, hi) ==
  IF lo > hi THEN 0
  ELSE IF lo = hi THEN f(lo)
  ELSE SumOver(f, lo, (lo + hi) \div 2) + SumOver(f, (lo + hi) \div 2 + 1, hi)

\* the word sum of c[i] * 256^(i-1) for numbers c[i] < 2^31
FromColumns(c) ==
  LET byte(k) == ShlBytes(Trim([i \in 1..Len(c) |-> (c[i] \div (256 ^ k)) % 256]), k)
      top == ShlBytes(Trim([i \in 1..Len(c) |-> c[i] \div 16777216]), 3)
  IN  WAdd(WAdd(byte(0), byte(1)), WAdd(byte(2), top))

\* a * k for a machine-small k (k < 2^16), not truncated
WMulSmall(a, k) == <<a, k, FromColumns(Trim([i \in 1..Len(a) |-> a[i] * k]))>>[3]

\* a * b, not truncated: column k holds the sum of the a[i] * b[j] with i + j = k + 1
WMul(a, b) ==
  LET term(k, i) == Limb(a, i) * Limb(b, k + 1 - i)
      columns == [k \in 1..(Len(a) + Len(b)) |->
                    SumOver(LAMBDA i : term(k, i), IF k > Len(b) THEN k + 1 - Len(b) ELSE 1,
                            IF k < Len(a) THEN k ELSE Len(a))]
  IN  <<a, b, IF a = <<>> \/ b = <<>> THEN <<>> ELSE FromColumns(Trim(columns))>>[3]

SmallWord(n) ==
  Trim(<<n % 256, (n \div 256) % 256, (n \div 65536) % 256, n \div 16777216>>)

SmallValue(a) == Limb(a, 1) + 256 * Limb(a, 2)

\* a machine integer small enough for TLC, as a number
WValue(a) == Limb(a, 1) + 256 * Limb(a, 2) + 65536 * Limb(a, 3)

\* up to 2^k iterations of  while ( C(st) ) st = S(st);  the first half is
\* evaluated before the second half starts from it
RECURSIVE Iterate(_, _, _, _)
Iterate(C(_), S(_), k, st) ==
  <<st, IF ~C(st) THEN st
        ELSE IF k = 0 THEN S(st)
        ELSE Iterate(C, S, k - 1, Iterate(C, S, k - 1, st))>>[2]

\* while ( C(st) ) st = S(st);
RECURSIVE While(_, _, _)
While(C(_), S(_), st) ==
  Let(Iterate(C, S, 5, st), LAMBDA s : IF C(s) THEN While(C, S, s) ELSE s)

\* the largest q in 0..255 with b * q <= r, for r < 256 * b, a bit at a time
\* from bit down, q holding the bits already decided
RECURSIVE QuotientBits(_, _, _, _)
QuotientBits(r, b, q, bit) ==
  IF <<q, bit = 0>>[2] THEN q
  ELSE QuotientBits(r, b, IF WLess(r, WMulSmall(b, q + bit)) THEN q ELSE q + bit, bit \div 2)

QuotientByte(r, b) == <<r, b, QuotientBits(r, b, 0, 128)>>[3]

\* unsigned a / b and a % b of the hardware, b # 0: [q |-> a div b, r |-> a mod b],
\* by long division a byte at a time from the top byte down
WDivMod(a, b) ==
  IF <<a, b, WLess(a, b)>>[3] THEN [q |-> <<>>, r |-> a]
  ELSE IF Len(b) <= 2
  THEN Let(While(LAMBDA t : t.i > 0,
                 LAMBDA t : LET cur == t.r * 256 + a[t.i]
                                d == SmallValue(b)
                            IN  [i |-> t.i - 1, r |-> cur % d, q |-> <<cur \div d>> \o t.q],
                 [i |-> Len(a), r |-> 0, q |-> <<>>]),
           LAMBDA s : [q |-> Trim(s.q), r |-> SmallWord(s.r)])
  ELSE Let(While(LAMBDA t : t.i > 0,
                 LAMBDA t : Let(Trim(<<a[t.i]>> \o t.r), LAMBDA cur :
                            Let(QuotientByte(cur, b), LAMBDA digit :
                                [i |-> t.i - 1, r |-> WSub(cur, WMulSmall(b, digit)),
                                 q |-> <<digit>> \o t.q])),
                 [i |-> Len(a), r |-> <<>>, q |-> <<>>]),
           LAMBDA s : [q |-> Trim(s.q), r |-> s.r])

WDiv(a, b) == WDivMod(a, b).q
WMod(a, b) == WDivMod(a, b).r

\* bit i (0 = least significant) of a
WBit(a, i) == (Limb(a, (i \div 8) + 1) \div (2 ^ (i % 8))) % 2

\* the word 2^i
WPow2(i) == Trim([j \in 1..((i \div 8) + 1) |-> IF j = (i \div 8) + 1 THEN 2 ^ (i % 8) ELSE 0])

\* the all-ones word of n bytes, 2^(8n) - 1
WOnes(n) == Trim([i \in 1..n |-> 255])

\* ~a on an n-byte word
WNot(a, n) == Trim([i \in 1..n |-> 255 - Limb(a, i)])

\* a with bit i set
WSetBit(a, i) ==
  LET n == (i \div 8) + 1
  IN  Trim([j \in 1..(IF Len(a) > n THEN Len(a) ELSE n) |->
              IF j = n /\ WBit(a, i) = 0 THEN Limb(a, j) + 2 ^ (i % 8) ELSE Limb(a, j)])

\* the word written as a sequence of decimal digits, most significant first
Dec(ds) ==
  While(LAMBDA t : t.i <= Len(ds),
        LAMBDA t : [i |-> t.i + 1, acc |-> WAdd(WMulSmall(t.acc, 10), SmallWord(ds[t.i]))],
        [i |-> 1, acc |-> <<>>]).acc

\* x & y on bytes
BitAnd(x, y) ==
  LET bit(v, i) == (v \div (2 ^ i)) % 2
  IN  SumOver(LAMBDA i : bit(x, i) * bit(y, i) * (2 ^ i), 0, 7)

\* a & b, a | b, a ^ b
WAnd(a, b) == Trim([i \in 1..MaxLen(a, b) |-> BitAnd(Limb(a, i), Limb(b, i))])
WOr(a, b) ==
  Trim([i \in 1..MaxLen(a, b) |-> Limb(a, i) + Limb(b, i) - BitAnd(Limb(a, i), Limb(b, i))])
WXor(a, b) ==
  Trim([i \in 1..MaxLen(a, b) |-> Limb(a, i) + Limb(b, i) - 2 * BitAnd(Limb(a, i), Limb(b, i))])

----------------------------------------------------------------------------
(* Constants.h                                                             *)

BITS_PER_UINT32 == 32
BITS_PER_UINT64 == 64
UINT32_MAX_VALUE == WOnes(4)
BIT_MASK_ONE == <<1>>
BIT_MASK_ZERO == <<>>
DECIMAL_96BIT_MAX_LOW == WOnes(8)
DECIMAL_96BIT_MAX_HIGH == WOnes(4)
INT_128_BASE == 10
INT_128_MAX_BIT_INDEX == 127
\* 0x1999999999999999
INT128_MUL10_OVERFLOW_THRESHOLD == <<153, 153, 153, 153, 153, 153, 153, 25>>
\* 0x8000000000000000
INT_128_MIN_NEGATIVE_HIGH == <<0, 0, 0, 0, 0, 0, 0, 128>>
INT_128_MIN_NEGATIVE_LOW == <<>>
INT_128_MAX_DIGIT_COUNT == 39
INT_128_MAX_POSITIVE_STRING ==
  <<"1", "7", "0", "1", "4", "1", "1", "8", "3", "4", "6", "0", "4", "6", "9",
    "2", "3", "1", "7", "3", "1", "6", "8", "7", "3", "0", "3", "7", "1", "5",
    "8", "8", "4", "1", "0", "5", "7", "2", "7">>
INT_128_MAX_NEGATIVE_STRING ==
  <<"1", "7", "0", "1", "4", "1", "1", "8", "3", "4", "6", "0", "4", "6", "9",
    "2", "3", "1", "7", "3", "1", "6", "8", "7", "3", "0", "3", "7", "1", "5",
    "8", "8", "4", "1", "0", "5", "7", "2", "8">>
DECIMAL_BASE == 10
DECIMAL_MAX_MANTISSA_0 == WOnes(4)
DECIMAL_MAX_MANTISSA_1 == WOnes(4)
DECIMAL_MAX_MANTISSA_2 == WOnes(4)
DECIMAL_MIN_MANTISSA_0 == <<1>>
DECIMAL_MIN_MANTISSA_1 == <<>>
DECIMAL_MIN_MANTISSA_2 == <<>>
DECIMAL_MAXIMUM_PLACES == 28
DECIMAL_DIVISION_EXTRA_PRECISION == 18
DECIMAL_ROUNDING_THRESHOLD == 5
\* 0x00FF0000 and 0x80000000
DECIMAL_SCALE_MASK == <<0, 0, 255>>
DECIMAL_SIGN_MASK == <<0, 0, 0, 128>>
DECIMAL_SCALE_SHIFT == 16
DECIMAL_POWER_TABLE_SIZE == 20
DECIMAL_EXTENDED_POWER_MIN == 20
DECIMAL_EXTENDED_POWER_MAX == 28
DECIMAL_MAX_STRING_LENGTH == 64

\* DECIMAL_POWERS_OF_10[power], power = 0..19, as 64-bit words (index power + 1)
DECIMAL_POWERS_OF_10 ==
  << <<1>>,
     <<10>>,
     <<100>>,
     <<232, 3>>,
     <<16, 39>>,
     <<160, 134, 1>>,
     <<64, 66, 15>>,
     <<128, 150, 152>>,
     <<0, 225, 245, 5>>,
     <<0, 202, 154, 59>>,
     <<0, 228, 11, 84, 2>>,
     <<0, 232, 118, 72, 23>>,
     <<0, 16, 165, 212, 232>>,
     <<0, 160, 114, 78, 24, 9>>,
     <<0, 64, 122, 16, 243, 90>>,
     <<0, 128, 198, 164, 126, 141, 3>>,
     <<0, 0, 193, 111, 242, 134, 35>>,
     <<0, 0, 138, 93, 120, 69, 99, 1>>,
     <<0, 0, 100, 167, 179, 182, 224, 13>>,
     <<0, 0, 232, 137, 4, 35, 199, 138>> >>

\* DECIMAL_EXTENDED_POWERS_OF_10[power - 20], power = 20..28, as <<low, high>> pairs of 64-bit words
DECIMAL_EXTENDED_POWERS_OF_10 ==
  << <<<<0, 0, 16, 99, 45, 94, 199, 107>>, <<5>>>>,
     <<<<0, 0, 160, 222, 197, 173, 201, 53>>, <<54>>>>,
     <<<<0, 0, 64, 178, 186, 201, 224, 25>>, <<30, 2>>>>,
     <<<<0, 0, 128, 246, 74, 225, 199, 2>>, <<45, 21>>>>,
     <<<<0, 0, 0, 161, 237, 204, 206, 27>>, <<194, 211>>>>,
     <<<<0, 0, 0, 74, 72, 1, 20, 22>>, <<149, 69, 8>>>>,
     <<<<0, 0, 0, 228, 210, 12, 200, 220>>, <<210, 183, 82>>>>,
     <<<<0, 0, 0, 232, 60, 128, 208, 159>>, <<60, 46, 59, 3>>>>,
     <<<<0, 0, 0, 16, 97, 2, 37, 62>>, <<94, 206, 79, 32>>>> >>

----------------------------------------------------------------------------
(* 64-bit unsigned arithmetic of the emulated backend (std::uint64_t).     *)

U64(a) == Trunc(a, 8)
U64Add(a, b) == <<a, b, Trunc(WAdd(a, b), 8)>>[3]
U64Sub(a, b) == <<a, b, IF WLess(a, b) THEN WSub(WPow2(64), WSub(b, a)) ELSE WSub(a, b)>>[3]
U64Mul(a, b) == <<a, b, Trunc(WMul(a, b), 8)>>[3]
\* a << 32 and a >> 32 and a & 0xFFFFFFFF on std::uint64_t
U64Shl32(a) == Trunc(ShlBytes(a, 4), 8)
U64Shr32(a) == ShrBytes(a, 4)
U64Low32(a) == Trunc(a, 4)
\* static_cast<std::int64_t>( a ) < static_cast<std::int64_t>( b )
S64Less(a, b) ==
  IF WBit(a, 63) # WBit(b, 63) THEN WBit(a, 63) = 1 ELSE WLess(a, b)

----------------------------------------------------------------------------
(* Int128.  A value is the pair of its 64-bit words on both backends (the  *)
(* native backend's m_value is upper64bits * 2^64 + lower64bits read as a  *)
(* two's-complement number).  Signed overflow of the native word wraps.    *)

Backends == {"native", "emulated"}

MakeInt128(low, high) == [lower64bits |-> low, upper64bits |-> high]

\* the 128-bit pattern of x as one unsigned word
Pattern(x) ==
  IF x.upper64bits = <<>> THEN x.lower64bits
  ELSE [i \in 1..8 |-> Limb(x.lower64bits, i)] \o x.upper64bits

FromPattern(p) == MakeInt128(Trunc(p, 8), ShrBytes(Trunc(p, 16), 8))

toLow(x) == x.lower64bits
toHigh(x) == x.upper64bits

Int128Zero == MakeInt128(<<>>, <<>>)
\* Int128( std::uint64_t ) and Int128( std::uint32_t )
Int128FromU64(v) == MakeInt128(v, <<>>)
\* Int128( std::int64_t ) and Int128( int ), v the two's-complement pattern of the argument
Int128FromS64(v) == MakeInt128(v, IF WBit(v, 63) = 1 THEN WOnes(8) ELSE <<>>)

Int128IsZero(x) == x.lower64bits = <<>> /\ x.upper64bits = <<>>
Int128IsNegative(x) == WBit(x.upper64bits, 63) = 1

\* |m_value| of the native word as an unsigned word (2^127 for the minimum)
Magnitude(x) ==
  IF Int128IsNegative(x) THEN WSub(WPow2(128), Pattern(x)) ELSE Pattern(x)

\* the native word holding sign * mag, wrapped to 128 bits
FromSignMagnitude(neg, mag) ==
  IF <<mag, neg /\ mag # <<>> >>[2] THEN FromPattern(WSub(WPow2(128), Trunc(mag, 16)))
  ELSE FromPattern(mag)

AddNative(a, b) == <<a, b, FromPattern(WAdd(Pattern(a), Pattern(b)))>>[3]

\* an emulated operator+ that leaves the carry out of the low word behind
AddEmulatedWithoutCarry(a, b) ==
  <<a, b, MakeInt128(U64Add(a.lower64bits, b.lower64bits),
                     U64Add(a.upper64bits, b.upper64bits))>>[3]

AddEmulated(a, b) ==
  Let(<<a, b, U64Add(a.lower64bits, b.lower64bits)>>[3], LAMBDA result_low :
      LET carry == IF WLess(result_low, a.lower64bits) THEN BIT_MASK_ONE ELSE BIT_MASK_ZERO
      IN  MakeInt128(result_low, U64Add(U64Add(a.upper64bits, b.upper64bits), carry)))

Int128Add(bk, a, b) == IF bk = "native" THEN AddNative(a, b) ELSE AddEmulated(a, b)

SubNative(a, b) ==
  <<a, b, IF WLess(Pattern(a), Pattern(b))
          THEN FromPattern(WSub(WPow2(128), WSub(Pattern(b), Pattern(a))))
          ELSE FromPattern(WSub(Pattern(a), Pattern(b)))>>[3]

SubEmulated(a, b) ==
  LET borrow == IF WLess(a.lower64bits, b.lower64bits) THEN BIT_MASK_ONE ELSE BIT_MASK_ZERO
  IN  <<a, b, MakeInt128(U64Sub(a.lower64bits, b.lower64bits),
                         U64Sub(U64Sub(a.upper64bits, b.upper64bits), borrow))>>[3]

Int128Sub(bk, a, b) == IF bk = "native" THEN SubNative(a, b) ELSE SubEmulated(a, b)

MulNative(a, b) == <<a, b, FromPattern(WMul(Pattern(a), Pattern(b)))>>[3]

\* an emulated operator* whose result_high leaves out the carry of the middle sum
MulEmulatedDroppingCarry(a, b) ==
  LET a_low  == U64Low32(a.lower64bits)
      a_high == U64Shr32(a.lower64bits)
      b_low  == U64Low32(b.lower64bits)
      b_high == U64Shr32(b.lower64bits)
  IN  Let(<<a, b, U64Mul(a_low, b_high)>>[3], LAMBDA p1 :
      Let(U64Mul(a_high, b_low), LAMBDA p2 :
          MakeInt128(U64Add(U64Add(U64Mul(a_low, b_low), U64Shl32(p1)), U64Shl32(p2)),
                     U64Add(U64Add(U64Add(U64Add(U64Mul(a_high, b_high), U64Shr32(p1)),
                                          U64Shr32(p2)),
                                   U64Mul(a.upper64bits, b.lower64bits)),
                            U64Mul(a.lower64bits, b.upper64bits))) ))

MulEmulated(a, b) ==
  LET a_low  == U64Low32(a.lower64bits)
      a_high == U64Shr32(a.lower64bits)
      b_low  == U64Low32(b.lower64bits)
      b_high == U64Shr32(b.lower64bits)
  IN  Let(<<a, b, U64Mul(a_low, b_low)>>[3], LAMBDA p0 :
      Let(U64Mul(a_low, b_high), LAMBDA p1 :
      Let(U64Mul(a_high, b_low), LAMBDA p2 :
      Let(U64Shr32(U64Add(U64Add(U64Shr32(p0), U64Low32(p1)), U64Low32(p2))), LAMBDA carry :
          \* p3 + ( p1 >> 32 ) + ( p2 >> 32 ) + carry, then the two cross terms
          MakeInt128(U64Add(U64Add(p0, U64Shl32(p1)), U64Shl32(p2)),
                     U64Add(U64Add(U64Add(U64Add(U64Mul(a_high, b_high), U64Shr32(p1)),
                                          U64Add(U64Shr32(p2), carry)),
                                   U64Mul(a.upper64bits, b.lower64bits)),
                            U64Mul(a.lower64bits, b.upper64bits))) ))))

Int128Mul(bk, a, b) == IF bk = "native" THEN MulNative(a, b) ELSE MulEmulated(a, b)

NegNative(a) == <<a, FromSignMagnitude(~Int128IsNegative(a), Magnitude(a))>>[2]

NegEmulated(a) ==
  <<a, AddEmulated(MakeInt128(WNot(a.lower64bits, 8), WNot(a.upper64bits, 8)),
                   Int128FromS64(<<1>>))>>[2]

Int128Neg(bk, a) == IF bk = "native" THEN NegNative(a) ELSE NegEmulated(a)

Int128Abs(bk, a) == IF Int128IsNegative(a) THEN Int128Neg(bk, a) ELSE a

Int128Eq(a, b) == a.lower64bits = b.lower64bits /\ a.upper64bits = b.upper64bits

LessNative(a, b) ==
  IF <<a, b, Int128IsNegative(a) # Int128IsNegative(b)>>[3] THEN Int128IsNegative(a)
  ELSE WLess(Pattern(a), Pattern(b))

LessEmulated(a, b) ==
  IF <<a, b, a.upper64bits # b.upper64bits>>[3] THEN S64Less(a.upper64bits, b.upper64bits)
  ELSE WLess(a.lower64bits, b.lower64bits)

Int128Less(bk, a, b) == IF bk = "native" THEN LessNative(a, b) ELSE LessEmulated(a, b)

GreaterEmulated(a, b) ==
  IF <<a, b, a.upper64bits # b.upper64bits>>[3] THEN S64Less(b.upper64bits, a.upper64bits)
  ELSE WLess(b.lower64bits, a.lower64bits)

Int128Greater(bk, a, b) == IF bk = "native" THEN LessNative(b, a) ELSE GreaterEmulated(a, b)

GreaterEqEmulated(a, b) ==
  IF <<a, b, a.upper64bits # b.upper64bits>>[3] THEN S64Less(b.upper64bits, a.upper64bits)
  ELSE ~WLess(a.lower64bits, b.lower64bits)

Int128GreaterEq(bk, a, b) ==
  IF bk = "native" THEN ~LessNative(a, b) ELSE GreaterEqEmulated(a, b)

\* the comparisons with a std::uint64_t val; static_cast<std::uint64_t>( m_value )
\* is the low word of the native value
Int128EqU64(bk, this, val) ==
  IF bk = "native" THEN ~Int128IsNegative(this) /\ toLow(this) = val
  ELSE toHigh(this) = <<>> /\ toLow(this) = val
Int128NotEqU64(bk, this, val) ==
  IF bk = "native" THEN Int128IsNegative(this) \/ toLow(this) # val
  ELSE ~Int128EqU64(bk, this, val)
Int128LessU64(bk, this, val) ==
  IF bk = "native" THEN Int128IsNegative(this) \/ WLess(toLow(this), val)
  ELSE IF Int128IsNegative(this) THEN TRUE
  ELSE IF toHigh(this) # <<>> THEN FALSE
  ELSE WLess(toLow(this), val)
Int128LessEqU64(bk, this, val) ==
  IF bk = "native" THEN Int128IsNegative(this) \/ ~WLess(val, toLow(this))
  ELSE IF Int128IsNegative(this) THEN TRUE
  ELSE IF toHigh(this) # <<>> THEN FALSE
  ELSE ~WLess(val, toLow(this))
Int128GreaterU64(bk, this, val) ==
  IF bk = "native" THEN ~Int128IsNegative(this) /\ WLess(val, toLow(this))
  ELSE IF Int128IsNegative(this) THEN FALSE
  ELSE IF toHigh(this) # <<>> THEN TRUE
  ELSE WLess(val, toLow(this))
Int128GreaterEqU64(bk, this, val) ==
  IF bk = "native" THEN ~Int128IsNegative(this) /\ ~WLess(toLow(this), val)
  ELSE IF Int128IsNegative(this) THEN FALSE
  ELSE IF toHigh(this) # <<>> THEN TRUE
  ELSE ~WLess(toLow(this), val)

\* the outcome of an operation that may throw
Thrown(what) == [thrown |-> what]
Returned(v) == [thrown |-> "none", value |-> v]

\* a native operator/ that substitutes 0 for the quotient by zero
DivNativeSubstituting(a, b) ==
  IF <<a, b, Pattern(b) = <<>> >>[3] THEN Returned(Int128Zero)
  ELSE Returned(FromSignMagnitude(Int128IsNegative(a) # Int128IsNegative(b),
                                  WDiv(Magnitude(a), Magnitude(b))))

DivNative(a, b) ==
  IF <<a, b, Pattern(b) = <<>> >>[3] THEN Thrown("overflow_error")
  ELSE Returned(FromSignMagnitude(Int128IsNegative(a) # Int128IsNegative(b),
                                  WDiv(Magnitude(a), Magnitude(b))))

\* one iteration of the restoring loop of the general tier: st = [i, remainder, quotient]
DivStep(st, abs_dividend, abs_divisor) ==
  LET bit == IF st.i >= BITS_PER_UINT64
             THEN WBit(abs_dividend.upper64bits, st.i - BITS_PER_UINT64)
             ELSE WBit(abs_dividend.lower64bits, st.i)
  IN  Let(AddEmulated(st.remainder, st.remainder), LAMBDA shifted :
      Let(IF bit = 1 THEN AddEmulated(shifted, MakeInt128(<<1>>, <<>>)) ELSE shifted,
          LAMBDA remainder :
      IF ~LessEmulated(remainder, abs_divisor)
      THEN [i |-> st.i - 1,
            remainder |-> SubEmulated(remainder, abs_divisor),
            quotient |-> IF st.i >= BITS_PER_UINT64
                         THEN MakeInt128(st.quotient.lower64bits,
                                         WSetBit(st.quotient.upper64bits, st.i - BITS_PER_UINT64))
                         ELSE MakeInt128(WSetBit(st.quotient.lower64bits, st.i),
                                         st.quotient.upper64bits)]
      ELSE [i |-> st.i - 1, remainder |-> remainder, quotient |-> st.quotient] ))

\* for ( i = INT_128_MAX_BIT_INDEX; i >= 0; --i )
DivLoop(st, abs_dividend, abs_divisor) ==
  While(LAMBDA t : t.i >= 0, LAMBDA t : DivStep(t, abs_dividend, abs_divisor), st)

DivEmulated(a, b) ==
  IF <<a, b, Int128IsZero(b)>>[3] THEN Thrown("overflow_error")
  ELSE IF a.upper64bits = <<>> /\ b.upper64bits = <<>>
  THEN Returned(MakeInt128(WDiv(a.lower64bits, b.lower64bits), <<>>))
  ELSE IF b.upper64bits = <<>>
  THEN LET divisor == b.lower64bits
           low_high == U64Shr32(a.lower64bits)
           low_low == U64Low32(a.lower64bits)
       IN  Let(WDivMod(a.upper64bits, divisor), LAMBDA high :
           \* high.q is high_quotient, high.r is high_remainder
           IF high.r = <<>>
           THEN Returned(MakeInt128(WDiv(a.lower64bits, divisor), high.q))
           ELSE Let(WDivMod(U64Add(U64Shl32(high.r), low_high), divisor), LAMBDA temp :
                \* temp.q is temp_quotient, temp.r is temp_remainder
                LET final_dividend == U64Add(U64Shl32(temp.r), low_low)
                    final_quotient == WDiv(final_dividend, divisor)
                    low_quotient == U64Add(U64Shl32(temp.q), final_quotient)
                IN  Returned(MakeInt128(low_quotient, high.q))))
  ELSE LET dividend_negative == Int128IsNegative(a)
           divisor_negative == Int128IsNegative(b)
           result_negative == dividend_negative # divisor_negative
       IN  Let(IF dividend_negative THEN NegEmulated(a) ELSE a, LAMBDA abs_dividend :
           Let(IF divisor_negative THEN NegEmulated(b) ELSE b, LAMBDA abs_divisor :
           IF LessEmulated(abs_dividend, abs_divisor)
           THEN Returned(Int128Zero)
           ELSE IF Int128Eq(abs_dividend, abs_divisor)
           THEN Returned(IF result_negative
                         THEN SubEmulated(Int128Zero, MakeInt128(<<1>>, <<>>))
                         ELSE MakeInt128(<<1>>, <<>>))
           ELSE Let(DivLoop([i |-> INT_128_MAX_BIT_INDEX, remainder |-> Int128Zero,
                             quotient |-> Int128Zero], abs_dividend, abs_divisor),
                    LAMBDA st : Returned(IF result_negative
                                         THEN SubEmulated(Int128Zero, st.quotient)
                                         ELSE st.quotient)) ))

Int128Div(bk, a, b) == IF bk = "native" THEN DivNative(a, b) ELSE DivEmulated(a, b)

ModNative(a, b) ==
  IF <<a, b, Pattern(b) = <<>> >>[3] THEN Thrown("overflow_error")
  ELSE Returned(FromSignMagnitude(Int128IsNegative(a), WMod(Magnitude(a), Magnitude(b))))

ModEmulated(a, b) ==
  IF <<a, b, Int128IsZero(b)>>[3] THEN Thrown("overflow_error")
  ELSE IF a.upper64bits = <<>> /\ b.upper64bits = <<>>
  THEN Returned(MakeInt128(WMod(a.lower64bits, b.lower64bits), <<>>))
  ELSE Returned(SubEmulated(a, MulEmulated(DivEmulated(a, b).value, b)))

Int128Mod(bk, a, b) == IF bk = "native" THEN ModNative(a, b) ELSE ModEmulated(a, b)

\* operator/= and operator%= : the outcome carries the new value of *this;
\* a throw leaves *this as it was
DivAssignNative(a, b) ==
  IF <<a, b, Pattern(b) = <<>> >>[3] THEN Thrown("overflow_error")
  ELSE Returned(FromSignMagnitude(Int128IsNegative(a) # Int128IsNegative(b),
                                  WDiv(Magnitude(a), Magnitude(b))))

DivAssignEmulated(a, b) == DivEmulated(a, b)

Int128DivAssign(bk, a, b) ==
  IF bk = "native" THEN DivAssignNative(a, b) ELSE DivAssignEmulated(a, b)

ModAssignNative(a, b) ==
  IF <<a, b, Pattern(b) = <<>> >>[3] THEN Thrown("overflow_error")
  ELSE Returned(FromSignMagnitude(Int128IsNegative(a), WMod(Magnitude(a), Magnitude(b))))

ModAssignEmulated(a, b) ==
  IF <<a, b, Int128IsZero(b)>>[3] THEN Thrown("overflow_error") ELSE ModEmulated(a, b)

Int128ModAssign(bk, a, b) ==
  IF bk = "native" THEN ModAssignNative(a, b) ELSE ModAssignEmulated(a, b)

----------------------------------------------------------------------------
(* Decimal.  m_layout.flags is a 32-bit word; m_layout.mantissa[0..2] are  *)
(* kept as the one 96-bit word mantissa[2] * 2^64 + mantissa[1] * 2^32 +   *)
(* mantissa[0].                                                            *)

\* 32-bit unsigned operations on the flags word
U32Not(a) == WNot(a, 4)
U32Shl16(a) == Trunc(ShlBytes(a, 2), 4)
\* static_cast<std::uint32_t>( n ) of a signed n
U32FromInt(n) == IF n >= 0 THEN SmallWord(n) ELSE WSub(WPow2(32), SmallWord(-n))

MakeDecimal(flags, mantissa) == [flags |-> flags, mantissa |-> mantissa]

\* Decimal(): m_layout{ 0, { 0, 0, 0 } }
DecimalDefault == MakeDecimal(<<>>, <<>>)

scale(d) == WValue(ShrBytes(WAnd(d.flags, DECIMAL_SCALE_MASK), 2))
isNegative(d) == WAnd(d.flags, DECIMAL_SIGN_MASK) # <<>>
isZero(d) == d.mantissa = <<>>

\* flags = ( flags & ~DECIMAL_SCALE_MASK ) | ( n << DECIMAL_SCALE_SHIFT )
WithScale(flags, n) == WOr(WAnd(flags, U32Not(DECIMAL_SCALE_MASK)), U32Shl16(U32FromInt(n)))

getPowerOf10(bk, power) ==
  IF power < DECIMAL_POWER_TABLE_SIZE /\ DECIMAL_POWERS_OF_10[power + 1] # <<>>
  THEN Int128FromU64(DECIMAL_POWERS_OF_10[power + 1])
  ELSE IF power >= DECIMAL_EXTENDED_POWER_MIN /\ power <= DECIMAL_EXTENDED_POWER_MAX
  THEN LET extended == DECIMAL_EXTENDED_POWERS_OF_10[power - DECIMAL_EXTENDED_POWER_MIN + 1]
       IN  MakeInt128(extended[1], extended[2])
  ELSE While(LAMBDA st : st.i < power,
             LAMBDA st : [i |-> st.i + 1,
                          result |-> Int128Mul(bk, st.result, Int128FromU64(SmallWord(DECIMAL_BASE)))],
             [i |-> 0, result |-> Int128FromS64(<<1>>)]).result

mantissaAsInt128(d) == <<d, MakeInt128(Trunc(d.mantissa, 8), ShrBytes(d.mantissa, 8))>>[2]

setMantissa(d, value) ==
  <<d, value,
    [d EXCEPT !.mantissa = Pattern(MakeInt128(value.lower64bits, Trunc(value.upper64bits, 4)))]>>[3]

alignScale(bk, decimal, other) ==
  LET left == mantissaAsInt128(decimal)
      right == mantissaAsInt128(other)
      leftScale == scale(decimal)
      rightScale == scale(other)
  IN  IF leftScale < rightScale
      THEN <<Int128Mul(bk, left, getPowerOf10(bk, rightScale - leftScale)), right>>
      ELSE IF rightScale < leftScale
      THEN <<left, Int128Mul(bk, right, getPowerOf10(bk, leftScale - rightScale))>>
      ELSE <<left, right>>

divideByPowerOf10(bk, d, power) ==
  <<d, setMantissa(d, Int128Div(bk, mantissaAsInt128(d), getPowerOf10(bk, power)).value)>>[2]

Ten == Int128FromU64(SmallWord(DECIMAL_BASE))

normalize(bk, decimal) ==
  While(LAMBDA d : scale(d) > 0 /\ Int128Eq(Int128Mod(bk, mantissaAsInt128(d), Ten).value,
                                            Int128FromS64(<<>>)),
        LAMBDA d : Let(divideByPowerOf10(bk, d, 1), LAMBDA divided :
                       [divided EXCEPT !.flags = WithScale(divided.flags, scale(d) - 1)]),
        decimal)

MaxOf(a, b) == IF a > b THEN a ELSE b

\* Decimal::operator+
DecimalAdd(bk, this, other) ==
  IF <<this, other, isZero(this)>>[3] THEN other
  ELSE IF isZero(other) THEN this
  ELSE LET flags == WithScale(this.flags, MaxOf(scale(this), scale(other)))
           signed == WOr(flags, DECIMAL_SIGN_MASK)
       IN  Let(alignScale(bk, this, other), LAMBDA al :
           \* al[1] is left, al[2] is right
           normalize(bk,
             IF isNegative(this) = isNegative(other)
             THEN setMantissa(MakeDecimal(IF isNegative(this) THEN signed ELSE flags, <<>>),
                              Int128Add(bk, al[1], al[2]))
             ELSE IF Int128Greater(bk, al[1], al[2])
             THEN setMantissa(MakeDecimal(IF isNegative(this) THEN signed ELSE flags, <<>>),
                              Int128Sub(bk, al[1], al[2]))
             ELSE setMantissa(MakeDecimal(IF isNegative(other) THEN signed ELSE flags, <<>>),
                              Int128Sub(bk, al[2], al[1]))))

\* Decimal::operator-() 
DecimalNeg(d) == [d EXCEPT !.flags = WXor(d.flags, DECIMAL_SIGN_MASK)]

\* Decimal::operator-( other )
DecimalSub(bk, this, other) == DecimalAdd(bk, this, DecimalNeg(other))

max96bit == MakeInt128(DECIMAL_96BIT_MAX_LOW, DECIMAL_96BIT_MAX_HIGH)

\* Decimal::operator*
DecimalMul(bk, this, other) ==
  IF <<this, other, isZero(this) \/ isZero(other)>>[3] THEN DecimalDefault
  ELSE \* the loop leaves at the break as soon as the test after the decrement holds
       Let(While(LAMBDA t : ~t.stop /\ (Int128Greater(bk, t.productMantissa, max96bit)
                                          \/ t.newScale > DECIMAL_MAXIMUM_PLACES),
                 LAMBDA t : Let(Int128Div(bk, t.productMantissa, Ten).value, LAMBDA divided :
                            LET decremented == (t.newScale - 1) % 256
                            IN  [productMantissa |-> divided, newScale |-> decremented,
                                 stop |-> decremented = 0
                                            /\ Int128Greater(bk, divided, max96bit)]),
                 [productMantissa |-> Int128Mul(bk, mantissaAsInt128(this),
                                                mantissaAsInt128(other)),
                  newScale |-> (scale(this) + scale(other)) % 256,
                  stop |-> FALSE]),
           LAMBDA st :
           LET flags == U32Shl16(U32FromInt(st.newScale))
           IN  normalize(bk, setMantissa(MakeDecimal(IF isNegative(this) # isNegative(other)
                                                     THEN WOr(flags, DECIMAL_SIGN_MASK)
                                                     ELSE flags, <<>>),
                                         st.productMantissa)))

\* the two pre-scaling loops of operator/ : st = [i, dividend, targetScale, stop]
PreScale(bk, st0, limit) ==
  While(LAMBDA t : ~t.stop /\ t.i < limit,
        LAMBDA t : IF WLess(INT128_MUL10_OVERFLOW_THRESHOLD, toHigh(t.dividend))
                   THEN [t EXCEPT !.stop = TRUE]
                   ELSE [i |-> t.i + 1, dividend |-> Int128Mul(bk, t.dividend, Ten),
                         targetScale |-> t.targetScale + 1, stop |-> FALSE],
        st0)

MinOf(a, b) == IF a < b THEN a ELSE b

\* Decimal::operator/
DecimalDiv(bk, this, other) ==
  IF <<this, other, isZero(other)>>[3] THEN Thrown("overflow_error")
  ELSE IF isZero(this) THEN Returned(DecimalDefault)
  ELSE Let(PreScale(bk, [i |-> 0, dividend |-> mantissaAsInt128(this),
                         targetScale |-> scale(this) - scale(other), stop |-> FALSE],
                    DECIMAL_DIVISION_EXTRA_PRECISION), LAMBDA s1 :
       Let(IF s1.targetScale < 0
           THEN PreScale(bk, [i |-> 0, dividend |-> s1.dividend,
                              targetScale |-> s1.targetScale, stop |-> FALSE],
                         MinOf((-s1.targetScale) % 256, DECIMAL_MAXIMUM_PLACES))
           ELSE s1, LAMBDA s2 :
       LET flags == U32Shl16(U32FromInt(s2.targetScale))
       IN  Returned(normalize(bk,
             setMantissa(MakeDecimal(IF isNegative(this) # isNegative(other)
                                     THEN WOr(flags, DECIMAL_SIGN_MASK) ELSE flags, <<>>),
                         Int128Div(bk, s2.dividend, mantissaAsInt128(other)).value)))))

\* Decimal::operator/= : *this = *this / other
DecimalDivAssign(bk, this, other) == DecimalDiv(bk, this, other)

\* Decimal::operator==( const Decimal& )
DecimalEq(bk, this, other) ==
  IF <<this, other, isZero(this) /\ isZero(other)>>[3] THEN TRUE
  ELSE IF isNegative(this) # isNegative(other) THEN FALSE
  ELSE Let(alignScale(bk, this, other), LAMBDA al : Int128Eq(al[1], al[2]))

\* Decimal::operator<( const Decimal& )
DecimalLess(bk, this, other) ==
  IF <<this, other, isNegative(this) # isNegative(other)>>[3] THEN isNegative(this)
  ELSE Let(alignScale(bk, this, other), LAMBDA al :
           IF isNegative(this) THEN Int128Greater(bk, al[1], al[2])
           ELSE Int128Less(bk, al[1], al[2]))

\* Decimal::operator!=, operator<=, operator>, operator>= ( const Decimal& )
DecimalNotEq(bk, this, other) == ~DecimalEq(bk, this, other)

DecimalLessEq(bk, this, other) ==
  DecimalLess(bk, this, other) \/ DecimalEq(bk, this, other)

DecimalGreater(bk, this, other) == ~DecimalLessEq(bk, this, other)

DecimalGreaterEq(bk, this, other) == ~DecimalLess(bk, this, other)

\* Decimal::operator==( const Int128& )
DecimalEqInt128(bk, this, val) ==
  IF <<this, val, scale(this) > 0>>[3] THEN FALSE
  ELSE IF isNegative(this)
  THEN IF Int128GreaterEq(bk, val, Int128Zero) THEN FALSE
       ELSE Int128Eq(mantissaAsInt128(this), Int128Neg(bk, val))
  ELSE IF Int128Less(bk, val, Int128Zero) THEN FALSE
       ELSE Int128Eq(mantissaAsInt128(this), val)

\* Int128::operator==( const Decimal& )
Int128EqDecimal(bk, this, val) ==
  IF <<this, val, scale(val) > 0>>[3] THEN FALSE
  ELSE IF Int128IsNegative(this) # isNegative(val) THEN Int128IsZero(this) /\ isZero(val)
  ELSE Int128Eq(Int128Abs(bk, this),
                MakeInt128(Trunc(val.mantissa, 8), ShrBytes(Trunc(val.mantissa, 12), 8)))

----------------------------------------------------------------------------
(* Rounding *)

RoundingModes ==
  {"ToNearest", "ToNearestTiesAway", "ToZero", "ToPositiveInfinity", "ToNegativeInfinity"}

Int128One == Int128FromS64(<<1>>)
Int128Two == Int128FromS64(<<2>>)

shouldRoundUpToNearest(bk, roundingDigit, mantissa, divisor, digitsToRemove, result) ==
  IF WLess(SmallWord(DECIMAL_ROUNDING_THRESHOLD), toLow(roundingDigit)) THEN TRUE
  ELSE IF toLow(roundingDigit) = SmallWord(DECIMAL_ROUNDING_THRESHOLD)
  THEN Let(Int128Mod(bk, mantissa, divisor).value, LAMBDA remainder :
       Let(Int128Mul(bk, roundingDigit, Int128Div(bk, divisor, Ten).value),
           LAMBDA roundingDigitContribution :
       LET hasRemainingFraction ==
             IF digitsToRemove > 1 THEN ~Int128Eq(remainder, roundingDigitContribution)
             ELSE FALSE
       IN  IF hasRemainingFraction THEN TRUE
           ELSE ~Int128Eq(Int128Mod(bk, mantissaAsInt128(result), Int128Two).value, Int128Zero)))
  ELSE FALSE

shouldRoundUpToNearestTiesAway(roundingDigit) ==
  ~WLess(toLow(roundingDigit), SmallWord(DECIMAL_ROUNDING_THRESHOLD))

shouldRoundUpToPositiveInfinity(bk, mantissa, digitsToRemove, negative) ==
  IF negative THEN FALSE
  ELSE IF digitsToRemove > 0
  THEN ~Int128IsZero(Int128Mod(bk, mantissa, getPowerOf10(bk, digitsToRemove)).value)
  ELSE FALSE

shouldRoundUpToNegativeInfinity(bk, mantissa, digitsToRemove, negative) ==
  IF ~negative THEN FALSE
  ELSE IF digitsToRemove > 0
  THEN ~Int128IsZero(Int128Mod(bk, mantissa, getPowerOf10(bk, digitsToRemove)).value)
  ELSE FALSE

\* Decimal::round.  The function is noexcept: a division by zero inside it (a
\* divisor 10^k that has wrapped to zero, possible only for a scale above 28)
\* ends the program.
DecimalRound(bk, this, decimalsPlacesCount, mode) ==
  LET places == IF decimalsPlacesCount < 0 THEN 0 ELSE decimalsPlacesCount
  IN  IF <<this, places >= scale(this) \/ isZero(this)>>[2] THEN Returned(this)
      ELSE
      Let((scale(this) - (places % 256)) % 256, LAMBDA digitsToRemove :
      LET targetScale == places % 256
          mantissa == mantissaAsInt128(this)
          directed == mode \in {"ToPositiveInfinity", "ToNegativeInfinity"}
                        /\ (isNegative(this) <=> mode = "ToNegativeInfinity")
      IN  Let(IF digitsToRemove > 1
              THEN While(LAMBDA t : t.i < digitsToRemove - 1,
                         LAMBDA t : [i |-> t.i + 1, divisor |-> Int128Mul(bk, t.divisor, Ten)],
                         [i |-> 0, divisor |-> Int128One]).divisor
              ELSE Int128One, LAMBDA divisor :
          IF Int128IsZero(divisor) \/ (directed /\ Int128IsZero(getPowerOf10(bk, digitsToRemove)))
          THEN Thrown("terminate")
          ELSE
          Let(Int128Mod(bk, Int128Div(bk, mantissa, divisor).value, Ten).value,
              LAMBDA roundingDigit :
          Let(While(LAMBDA t : t.i < digitsToRemove,
                    LAMBDA t : [i |-> t.i + 1, result |-> divideByPowerOf10(bk, t.result, 1)],
                    [i |-> 0, result |-> this]).result, LAMBDA truncated :
          Let([truncated EXCEPT !.flags = WithScale(truncated.flags, targetScale)],
              LAMBDA result :
          IF CASE mode = "ToNearest" ->
                    shouldRoundUpToNearest(bk, roundingDigit, mantissa, divisor,
                                           digitsToRemove, result)
               [] mode = "ToNearestTiesAway" -> shouldRoundUpToNearestTiesAway(roundingDigit)
               [] mode = "ToZero" -> FALSE
               [] mode = "ToPositiveInfinity" ->
                    shouldRoundUpToPositiveInfinity(bk, mantissa, digitsToRemove,
                                                    isNegative(this))
               [] mode = "ToNegativeInfinity" ->
                    shouldRoundUpToNegativeInfinity(bk, mantissa, digitsToRemove,
                                                    isNegative(this))
          THEN Returned(setMantissa(result, Int128Add(bk, mantissaAsInt128(result), Int128One)))
          ELSE Returned(result) )))))

DecimalTruncate(bk, this) == DecimalRound(bk, this, 0, "ToZero")
DecimalFloor(bk, this) == DecimalRound(bk, this, 0, "ToNegativeInfinity")
DecimalCeiling(bk, this) == DecimalRound(bk, this, 0, "ToPositiveInfinity")

----------------------------------------------------------------------------
(* Constructors and constants *)

\* Decimal( std::int64_t value ), value given as its 64-bit pattern; the most
\* negative value, whose negation overflows, is not a permitted argument here
DecimalFromInt64(value) ==
  IF S64Less(value, <<>>)
  THEN MakeDecimal(DECIMAL_SIGN_MASK, U64Sub(<<>>, value))
  ELSE MakeDecimal(<<>>, value)

\* a Decimal( const Int128& ) that stores the low 96 bits of every magnitude
DecimalFromInt128Unclamped(bk, val) ==
  IF Int128IsZero(val) THEN DecimalDefault
  ELSE setMantissa(MakeDecimal(IF Int128IsNegative(val) THEN DECIMAL_SIGN_MASK ELSE <<>>, <<>>),
                   Int128Abs(bk, val))

\* Decimal( const Int128& val )
DecimalFromInt128(bk, val) ==
  LET maxMantissa == Pattern(MakeInt128(WOr(DECIMAL_MAX_MANTISSA_0, ShlBytes(DECIMAL_MAX_MANTISSA_1, 4)),
                                        DECIMAL_MAX_MANTISSA_2))
      signFlag == IF Int128IsNegative(val) THEN DECIMAL_SIGN_MASK ELSE <<>>
  IN  IF Int128IsZero(val) THEN DecimalDefault
      ELSE IF toHigh(val) = INT_128_MIN_NEGATIVE_HIGH /\ toLow(val) = INT_128_MIN_NEGATIVE_LOW
      THEN MakeDecimal(signFlag, maxMantissa)
      ELSE Let(Int128Abs(bk, val), LAMBDA absoluteValue :
               IF WLess(UINT32_MAX_VALUE, toHigh(absoluteValue))
               THEN MakeDecimal(signFlag, maxMantissa)
               ELSE setMantissa(MakeDecimal(signFlag, <<>>), absoluteValue))

\* Decimal::operator==( std::int64_t ), val given as its 64-bit pattern
DecimalEqInt64(bk, this, val) ==
  IF <<this, val, scale(this) > 0>>[3] THEN FALSE
  ELSE DecimalEq(bk, this, DecimalFromInt64(val))

DecimalZero == DecimalDefault
DecimalOne == MakeDecimal(<<>>, <<1>>)

minValue ==
  MakeDecimal(U32Shl16(SmallWord(DECIMAL_MAXIMUM_PLACES)),
              Pattern(MakeInt128(WOr(DECIMAL_MIN_MANTISSA_0, ShlBytes(DECIMAL_MIN_MANTISSA_1, 4)),
                                 DECIMAL_MIN_MANTISSA_2)))

maxValue ==
  MakeDecimal(<<>>,
              Pattern(MakeInt128(WOr(DECIMAL_MAX_MANTISSA_0, ShlBytes(DECIMAL_MAX_MANTISSA_1, 4)),
                                 DECIMAL_MAX_MANTISSA_2)))

----------------------------------------------------------------------------
(* Strings are sequences of characters; str[i] of the source is str[i + 1]. *)

DigitChars == <<"0", "1", "2", "3", "4", "5", "6", "7", "8", "9">>
\* !( c < '0' || c > '9' )
IsDigit(c) == \E k \in 1..10 : DigitChars[k] = c
\* c - '0'
DigitValue(c) == (CHOOSE k \in 1..10 : DigitChars[k] = c) - 1
\* static_cast<char>( '0' + n )
DigitChar(n) == DigitChars[n + 1]

\* Decimal::tryParse: [ok |-> the returned flag, result |-> the output argument]
tryParse(bk, str) ==
  LET length == Len(str)
      failed == [ok |-> FALSE, result |-> DecimalDefault]
      negative == length > 0 /\ str[1] = "-"
      pos == IF length > 0 /\ str[1] \in {"-", "+"} THEN 1 ELSE 0
      points == {i \in pos..(length - 1) : str[i + 1] = "."}
      hasPoint == points # {}
      decimalPos == CHOOSE i \in points : TRUE
      afterPoint(i) == hasPoint /\ i > decimalPos
      scale0 == IF hasPoint
                THEN MinOf((length - decimalPos - 1) % 256, DECIMAL_MAXIMUM_PLACES)
                ELSE 0
      step(t) ==
        LET c == str[t.i + 1]
            digit == DigitValue(c)
            significant == digit # 0 \/ ~Int128Eq(t.mantissaValue, Int128Zero) \/ afterPoint(t.i)
        IN  IF c = "." THEN [t EXCEPT !.i = t.i + 1]
            ELSE IF ~IsDigit(c) THEN [t EXCEPT !.exit = "invalid"]
            ELSE IF t.significantDigits >= DECIMAL_MAXIMUM_PLACES
            THEN [t EXCEPT !.hasDigits = TRUE, !.exit = "break",
                           !.currentScale = IF hasPoint THEN t.decimalDigitsProcessed
                                            ELSE t.currentScale]
            ELSE [i |-> t.i + 1,
                  mantissaValue |-> Int128Add(bk, Int128Mul(bk, t.mantissaValue, Ten),
                                              Int128FromU64(SmallWord(digit))),
                  hasDigits |-> TRUE,
                  significantDigits |-> t.significantDigits + (IF significant THEN 1 ELSE 0),
                  decimalDigitsProcessed |-> t.decimalDigitsProcessed
                                               + (IF afterPoint(t.i) THEN 1 ELSE 0),
                  currentScale |-> t.currentScale,
                  exit |-> "run"]
      tooLarge(t) == WLess(UINT32_MAX_VALUE, toHigh(t.mantissaValue))
      shrink(t) == [t EXCEPT !.mantissaValue = Int128Div(bk, t.mantissaValue, Ten).value]
  IN  IF length = 0 THEN failed
      ELSE IF pos >= length THEN failed
      ELSE IF Cardinality(points) > 1 THEN failed
      ELSE
      Let(While(LAMBDA t : t.exit = "run" /\ t.i < length, step,
                [i |-> pos, mantissaValue |-> Int128Zero, hasDigits |-> FALSE,
                 significantDigits |-> 0, decimalDigitsProcessed |-> 0,
                 currentScale |-> scale0, exit |-> "run"]), LAMBDA scanned :
      IF scanned.exit = "invalid" THEN failed
      ELSE IF ~scanned.hasDigits THEN failed
      ELSE
      Let(While(tooLarge, shrink,
                While(LAMBDA t : tooLarge(t) /\ t.currentScale > 0,
                      LAMBDA t : [shrink(t) EXCEPT !.currentScale = t.currentScale - 1],
                      scanned)), LAMBDA fitted :
      LET flags == WOr(IF negative THEN DECIMAL_SIGN_MASK ELSE <<>>,
                       U32Shl16(SmallWord(fitted.currentScale)))
      IN  [ok |-> TRUE,
           result |-> normalize(bk, setMantissa(MakeDecimal(flags, <<>>),
                                                fitted.mantissaValue))] ))

\* Decimal::parse
parse(bk, str) ==
  Let(tryParse(bk, str), LAMBDA r :
      IF r.ok THEN Returned(r.result) ELSE Thrown("invalid_argument"))

\* the 64-bit digit loop of toString: t = [value, digits], least significant digit first
U64Digits(value, digits) ==
  While(LAMBDA t : t.value # <<>> /\ Len(t.digits) < DECIMAL_MAX_STRING_LENGTH,
        LAMBDA t : Let(WDivMod(t.value, SmallWord(DECIMAL_BASE)), LAMBDA qr :
                       [value |-> qr.q, digits |-> Append(t.digits, DigitChar(SmallValue(qr.r)))]),
        [value |-> value, digits |-> digits]).digits

\* the 128-bit digit loops of toString
Int128Digits(bk, mantissa) ==
  While(LAMBDA t : ~t.done /\ ~Int128IsZero(t.mantissa)
                     /\ Len(t.digits) < DECIMAL_MAX_STRING_LENGTH,
        LAMBDA t : IF bk = "emulated" /\ toHigh(t.mantissa) = <<>>
                   THEN [t EXCEPT !.digits = U64Digits(toLow(t.mantissa), t.digits),
                                  !.done = TRUE]
                   ELSE [mantissa |-> Int128Div(bk, t.mantissa, Ten).value,
                         digits |-> Append(t.digits,
                                           DigitChar(SmallValue(toLow(
                                             Int128Mod(bk, t.mantissa, Ten).value)))),
                         done |-> FALSE],
        [mantissa |-> mantissa, digits |-> <<>>, done |-> FALSE]).digits

\* digits[to], digits[to + 1], ..., digits[from - 1]: the digits in the order
\* the extraction produced them
Extracted(digits, from, to) == [k \in 1..(from - to) |-> digits[to + k]]

\* digits[from - 1], digits[from - 2], ..., digits[to]   (0-based, as in the source)
Reversed(digits, from, to) == [k \in 1..(from - to) |-> digits[from - k + 1]]

\* Decimal::toString
toString(bk, this) ==
  IF <<this, isZero(this)>>[2] THEN <<"0">>
  ELSE Let(Int128Abs(bk, mantissaAsInt128(this)), LAMBDA mantissa :
       LET fits64 == IF bk = "native"
                     THEN ~LessNative(MakeInt128(WOnes(8), <<>>), mantissa)
                     ELSE toHigh(mantissa) = <<>>
       IN  Let(IF fits64 THEN U64Digits(toLow(mantissa), <<>>)
               ELSE Int128Digits(bk, mantissa), LAMBDA extracted :
           LET currentScale == scale(this)
               digits == IF extracted = <<>> THEN <<"0">> ELSE extracted
               digitCount == Len(digits)
               sign == IF isNegative(this) THEN <<"-">> ELSE <<>>
           IN  IF currentScale > 0
               THEN IF currentScale >= digitCount
                    THEN sign \o <<"0", ".">> \o [k \in 1..(currentScale - digitCount) |-> "0"]
                              \o Reversed(digits, digitCount, 0)
                    ELSE sign \o Reversed(digits, digitCount, currentScale) \o <<".">>
                              \o Reversed(digits, currentScale, 0)
               ELSE sign \o Reversed(digits, digitCount, 0)))

\* Decimal( std::string_view str )
DecimalFromString(bk, str) ==
  Let(tryParse(bk, str), LAMBDA r :
      IF r.ok THEN Returned(r.result) ELSE Thrown("invalid_argument"))

\* the code of a character, for the characters the literals are written with
CharCode(c) ==
  CASE c = "+" -> 43
    [] c = "-" -> 45
    [] c = "." -> 46
    [] c = "a" -> 97
    [] OTHER -> 48 + DigitValue(c)

\* std::string_view operator>= for two views
StringGreaterOrEqual(a, b) ==
  ~(\/ \E i \in 1..MinOf(Len(a), Len(b)) :
         /\ CharCode(a[i]) < CharCode(b[i])
         /\ \A j \in 1..(i - 1) : a[j] = b[j]
    \/ /\ Len(a) < Len(b)
       /\ \A j \in 1..Len(a) : a[j] = b[j])

\* std::string_view operator> for two views
StringGreater(a, b) ==
  \/ \E i \in 1..MinOf(Len(a), Len(b)) :
       /\ CharCode(a[i]) > CharCode(b[i])
       /\ \A j \in 1..(i - 1) : a[j] = b[j]
  \/ /\ Len(a) > Len(b)
     /\ \A j \in 1..Len(b) : a[j] = b[j]

\* Int128::tryParse: [ok |-> the returned flag, result |-> the output argument],
\* which holds result0 before the call
Int128TryParse(bk, str, result0) ==
  LET length == Len(str)
      negative == length > 0 /\ str[1] = "-"
      pos == IF length > 0 /\ str[1] \in {"-", "+"} THEN 1 ELSE 0
      digitCount == length - pos
      digits == SubSeq(str, pos + 1, length)
      step(t) ==
        IF ~IsDigit(str[t.i + 1]) THEN [t EXCEPT !.invalid = TRUE]
        ELSE [i |-> t.i + 1,
              result |-> Int128Add(bk, Int128Mul(bk, t.result, Int128FromS64(SmallWord(INT_128_BASE))),
                                   Int128FromS64(SmallWord(DigitValue(str[t.i + 1])))),
              invalid |-> FALSE]
  IN  IF length = 0 THEN [ok |-> FALSE, result |-> result0]
      ELSE IF pos >= length THEN [ok |-> FALSE, result |-> result0]
      ELSE IF digitCount > INT_128_MAX_DIGIT_COUNT THEN [ok |-> FALSE, result |-> Int128Zero]
      ELSE IF /\ digitCount = INT_128_MAX_DIGIT_COUNT
              /\ StringGreater(digits, IF negative THEN INT_128_MAX_NEGATIVE_STRING
                                       ELSE INT_128_MAX_POSITIVE_STRING)
      THEN [ok |-> FALSE, result |-> Int128Zero]
      ELSE
      Let(While(LAMBDA t : ~t.invalid /\ t.i < length, step,
                [i |-> pos, result |-> Int128Zero, invalid |-> FALSE]), LAMBDA scanned :
          IF scanned.invalid THEN [ok |-> FALSE, result |-> scanned.result]
          ELSE [ok |-> TRUE,
                result |-> IF negative THEN Int128Neg(bk, scanned.result)
                           ELSE scanned.result])

\* Int128::parse
Int128Parse(bk, str) ==
  Let(Int128TryParse(bk, str, Int128Zero), LAMBDA r :
      IF r.ok THEN Returned(r.result) ELSE Thrown("invalid_argument"))

\* Int128::toString
Int128ToString(bk, this) ==
  IF <<this, Int128IsZero(this)>>[2] THEN <<"0">>
  ELSE IF toHigh(this) = INT_128_MIN_NEGATIVE_HIGH /\ toLow(this) = INT_128_MIN_NEGATIVE_LOW
  THEN <<"-">> \o INT_128_MAX_NEGATIVE_STRING
  ELSE (IF Int128IsNegative(this) THEN <<"-">> ELSE <<>>)
         \o While(LAMBDA t : ~Int128IsZero(t.temp),
                  LAMBDA t : Let(Int128Div(bk, t.temp, Int128FromS64(SmallWord(INT_128_BASE))).value,
                                 LAMBDA quotient :
                             [temp |-> quotient,
                              result |-> <<DigitChar(SmallValue(toLow(
                                             Int128Mod(bk, t.temp,
                                                       Int128FromS64(SmallWord(INT_128_BASE))).value)))>>
                                           \o t.result]),
                  [temp |-> Int128Abs(bk, this), result |-> <<>>]).result

----------------------------------------------------------------------------
(* The programs.  Two Decimal or Int128 objects x and y, a string str, the  *)
(* outcome out of the last operation, its name last and its other arguments *)
(* arg; backend is the build (native __int128 or the emulated pair of       *)
(* 64-bit words); n counts the operations applied.                          *)

VARIABLES backend, kind, x, y, str, arg, out, last, n

vars == <<backend, kind, x, y, str, arg, out, last, n>>

\* small integer arguments range over -MaxSmall .. MaxSmall
MaxSmall == 2
\* the number of operations a run of the calculator applies
MaxOps == 2
\* round is called with 0 .. MaxPlaces decimal places
MaxPlaces == 1

NoOutcome == [thrown |-> "none"]
NoArg == [mode |-> "none"]

\* the 64-bit two's-complement pattern of a small integer
S64(k) == IF k >= 0 THEN SmallWord(k) ELSE WSub(WPow2(64), SmallWord(-k))

\* the string of k characters c
Repeat(c, k) == [i \in 1..k |-> c] \o <<>>

\* an operation on x and y that leaves the objects as they are
Pure(name, a, outcome) ==
  /\ last = "init"
  /\ last' = name
  /\ arg' = a
  /\ out' = outcome
  /\ n' = n + 1
  /\ UNCHANGED <<backend, kind, x, y, str>>

\* an operation whose returned value is assigned to x; a throw leaves x as it was
Assigning(name, a, outcome) ==
  /\ last' = name
  /\ arg' = a
  /\ out' = outcome
  /\ x' = IF outcome.thrown = "none" THEN outcome.value ELSE x
  /\ n' = n + 1
  /\ UNCHANGED <<backend, kind, y, str>>

----------------------------------------------------------------------------
(* SpecArith: one arithmetic operation applied to a pair of operands *)

\* 123456789012345678901234567890
ThirtyDigits ==
  FromPattern(Dec(<<1, 2, 3, 4, 5, 6, 7, 8, 9, 0, 1, 2, 3, 4, 5, 6, 7, 8, 9, 0,
                    1, 2, 3, 4, 5, 6, 7, 8, 9, 0>>))

\* operands of the Int128 operations: the small integers, the ends of the
\* signed 64-bit range, and values that need the upper word
Int128Pool ==
  {Int128FromS64(S64(k)) : k \in -MaxSmall..MaxSmall}
    \cup {Int128FromS64(S64(6)), Int128FromS64(S64(-6)), Int128FromS64(S64(-7)),
          Int128FromS64(<<255, 255, 255, 255, 255, 255, 255, 127>>),
          Int128FromS64(<<0, 0, 0, 0, 0, 0, 0, 128>>),
          MakeInt128(<<5>>, <<1>>),
          MakeInt128(WOnes(8), <<255, 255, 255, 255, 255, 255, 255, 127>>),
          ThirtyDigits}

\* operands of the Decimal operations: the small integers, zeros of either
\* sign and of several scales, fractions, the extremes
DecimalLiterals ==
  {<<"0", ".", "1">>, <<"0", ".", "2">>, <<"0", ".", "3">>, <<"-", "1", ".", "5">>,
   <<"2">> \o Repeat("0", 20),
   <<"1", ".">> \o Repeat("0", DECIMAL_MAXIMUM_PLACES - 2) \o <<"1">>}

\* zeros written through the flags() accessor: -0, 0 with scale 28, -0 with scale 3
DecimalZeros ==
  {MakeDecimal(DECIMAL_SIGN_MASK, <<>>),
   MakeDecimal(U32Shl16(SmallWord(DECIMAL_MAXIMUM_PLACES)), <<>>),
   MakeDecimal(WOr(DECIMAL_SIGN_MASK, U32Shl16(SmallWord(3))), <<>>)}

DecimalPool(bk) ==
  {DecimalFromInt64(S64(k)) : k \in -MaxSmall..MaxSmall}
    \cup DecimalZeros
    \cup {DecimalFromString(bk, s).value : s \in DecimalLiterals}
    \cup {maxValue, minValue}

InitArith ==
  /\ backend \in Backends
  /\ kind \in {"Int128", "Decimal"}
  /\ x \in (IF kind = "Int128" THEN Int128Pool ELSE DecimalPool(backend))
  /\ y \in (IF kind = "Int128" THEN Int128Pool ELSE DecimalPool(backend))
  /\ str = <<>>
  /\ arg = NoArg
  /\ out = NoOutcome
  /\ last = "init"
  /\ n = 0

Int128Multiply ==
  kind = "Int128" /\ Pure("Int128 *", NoArg, Returned(Int128Mul(backend, x, y)))
Int128Divide == kind = "Int128" /\ Pure("Int128 /", NoArg, Int128Div(backend, x, y))
Int128Modulo == kind = "Int128" /\ Pure("Int128 %", NoArg, Int128Mod(backend, x, y))
Int128DivideAssign ==
  kind = "Int128" /\ last = "init" /\ Assigning("Int128 /=", NoArg, Int128DivAssign(backend, x, y))
Int128ModuloAssign ==
  kind = "Int128" /\ last = "init" /\ Assigning("Int128 %=", NoArg, Int128ModAssign(backend, x, y))

DecimalPlus == kind = "Decimal" /\ Pure("Decimal +", NoArg, Returned(DecimalAdd(backend, x, y)))
DecimalMinus == kind = "Decimal" /\ Pure("Decimal -", NoArg, Returned(DecimalSub(backend, x, y)))
DecimalTimes == kind = "Decimal" /\ Pure("Decimal *", NoArg, Returned(DecimalMul(backend, x, y)))
DecimalDivide == kind = "Decimal" /\ Pure("Decimal /", NoArg, DecimalDiv(backend, x, y))
DecimalDivideAssign ==
  kind = "Decimal" /\ last = "init"
    /\ Assigning("Decimal /=", NoArg, DecimalDivAssign(backend, x, y))

NextArith ==
  \/ Int128Multiply
  \/ Int128Divide
  \/ Int128Modulo
  \/ Int128DivideAssign
  \/ Int128ModuloAssign
  \/ DecimalPlus
  \/ DecimalMinus
  \/ DecimalTimes
  \/ DecimalDivide
  \/ DecimalDivideAssign

SpecArith == InitArith /\ [][NextArith]_vars

----------------------------------------------------------------------------
(* Spec: the calculator.  x and y are built by the integer, string and     *)
(* Int128 constructors; each operation assigns its result to x, and the    *)
(* two objects can be exchanged, so that both operands of an operation can  *)
(* be results of earlier ones.                                              *)

CalculatorLiterals ==
  {<<"1", ".", "9", "5">>,
   <<"1">> \o Repeat("0", DECIMAL_MAXIMUM_PLACES),
   <<"0", ".">> \o Repeat("0", DECIMAL_MAXIMUM_PLACES - 1) \o <<"1">>}

CalculatorPool(bk) ==
  {DecimalFromInt64(S64(0)), DecimalFromInt64(S64(-MaxSmall))}
    \cup {DecimalFromString(bk, s).value : s \in CalculatorLiterals}
    \cup {DecimalFromInt128(bk, MakeInt128(<<5>>, <<1>>))}

Init ==
  /\ backend \in Backends
  /\ kind = "Decimal"
  /\ x \in CalculatorPool(backend)
  /\ y \in CalculatorPool(backend)
  /\ str = <<>>
  /\ arg = NoArg
  /\ out = NoOutcome
  /\ last = "init"
  /\ n = 0

\* the program goes on while no noexcept function has thrown
Running == n < MaxOps /\ out.thrown # "terminate"

Add == Running /\ Assigning("+", NoArg, Returned(DecimalAdd(backend, x, y)))
Subtract == Running /\ Assigning("-", NoArg, Returned(DecimalSub(backend, x, y)))
Multiply == Running /\ Assigning("*", NoArg, Returned(DecimalMul(backend, x, y)))
Divide == Running /\ Assigning("/", NoArg, DecimalDiv(backend, x, y))
Negate == Running /\ Assigning("unary -", NoArg, Returned(DecimalNeg(x)))
Round ==
  /\ Running
  /\ \E places \in 0..MaxPlaces, mode \in RoundingModes :
       Assigning("round", [mode |-> mode, decimalPlacesCount |-> places],
                 DecimalRound(backend, x, places, mode))
Truncate == Running /\ Assigning("truncate", NoArg, DecimalTruncate(backend, x))
Floor == Running /\ Assigning("floor", NoArg, DecimalFloor(backend, x))
Ceiling == Running /\ Assigning("ceiling", NoArg, DecimalCeiling(backend, x))
\* std::swap( x, y )
Exchange ==
  /\ Running
  /\ last # "swap"
  /\ x' = y
  /\ y' = x
  /\ last' = "swap"
  /\ arg' = NoArg
  /\ out' = NoOutcome
  /\ UNCHANGED <<backend, kind, str, n>>

Next ==
  \/ Add
  \/ Subtract
  \/ Multiply
  \/ Divide
  \/ Negate
  \/ Round
  \/ Truncate
  \/ Floor
  \/ Ceiling
  \/ Exchange

Spec == Init /\ [][Next]_vars

----------------------------------------------------------------------------
(* SpecRound: one call of round on a value with fractional digits *)

RoundLiterals ==
  {<<"2", ".", "5">>, <<"3", ".", "5">>, <<"4", ".", "5">>, <<"5", ".", "5">>,
   <<"-", "2", ".", "5">>, <<"-", "3", ".", "5">>,
   <<"2", ".", "4">>, <<"2", ".", "6">>, <<"-", "2", ".", "1">>, <<"-", "2", ".", "9">>,
   <<"2", ".", "5", "1">>, <<"2", ".", "5", "5">>, <<"2", ".", "4", "5">>,
   <<"1", ".", "9", "5">>, <<"0", ".", "1", "2", "5">>,
   <<"0", ".", "5">> \o Repeat("0", DECIMAL_MAXIMUM_PLACES - 2) \o <<"1">>,
   <<"0", ".", "4">> \o Repeat("9", DECIMAL_MAXIMUM_PLACES - 1)}

\* 99999999.99999999999999999999 rounded to 19 places: 10^27 with scale 19
RoundedUp(bk) ==
  DecimalRound(bk, DecimalFromString(bk, Repeat("9", 8) \o <<".">> \o Repeat("9", 20)).value,
               19, "ToNearest").value

RoundPool(bk) ==
  {DecimalFromString(bk, s).value : s \in RoundLiterals}
    \cup {minValue, RoundedUp(bk), DecimalNeg(RoundedUp(bk))}

InitRound ==
  /\ backend \in Backends
  /\ kind = "Decimal"
  /\ x \in RoundPool(backend)
  /\ y = DecimalDefault
  /\ str = <<>>
  /\ arg = NoArg
  /\ out = NoOutcome
  /\ last = "init"
  /\ n = 0

RoundOnce ==
  \E places \in -1..(MaxPlaces + 1), mode \in RoundingModes :
    Pure("round", [mode |-> mode, decimalPlacesCount |-> places],
         DecimalRound(backend, x, places, mode))

TruncateOnce ==
  Pure("truncate", [mode |-> "ToZero", decimalPlacesCount |-> 0], DecimalTruncate(backend, x))
FloorOnce ==
  Pure("floor", [mode |-> "ToNegativeInfinity", decimalPlacesCount |-> 0],
       DecimalFloor(backend, x))
CeilingOnce ==
  Pure("ceiling", [mode |-> "ToPositiveInfinity", decimalPlacesCount |-> 0],
       DecimalCeiling(backend, x))

NextRound ==
  \/ RoundOnce
  \/ TruncateOnce
  \/ FloorOnce
  \/ CeilingOnce

SpecRound == InitRound /\ [][NextRound]_vars

----------------------------------------------------------------------------
(* SpecString: a Decimal formatted and parsed back, and a literal parsed *)

\* 10^28 + 1, a mantissa of 29 decimal digits
TwentyNineDigits == WAdd(DECIMAL_EXTENDED_POWERS_OF_10[9][1] \o DECIMAL_EXTENDED_POWERS_OF_10[9][2], <<1>>)

FormatPool(bk) ==
  {DecimalFromInt64(S64(k)) : k \in -MaxSmall..MaxSmall}
    \cup {DecimalFromString(bk, s).value : s \in DecimalLiterals}
    \cup {maxValue, minValue, DecimalNeg(maxValue),
          MakeDecimal(<<>>, TwentyNineDigits),
          MakeDecimal(U32Shl16(SmallWord(DECIMAL_MAXIMUM_PLACES)), TwentyNineDigits)}

TwentyEightDigits == <<"1", "2", "3", "4", "5", "6", "7", "8", "9", "0", "1", "2", "3", "4",
                       "5", "6", "7", "8", "9", "0", "1", "2", "3", "4", "5", "6", "7", "8">>

ParseLiterals ==
  {<<"0">>, <<"-", "1", ".", "5">>, <<"+", "4", "2">>, <<"0", ".", "1", "0">>,
   TwentyEightDigits,
   TwentyEightDigits \o <<"9">>,
   <<"-">> \o TwentyEightDigits \o <<"9">>,
   TwentyEightDigits \o <<".", "9">>,
   <<"1", ".">> \o TwentyEightDigits,
   SubSeq(TwentyEightDigits, 1, 14) \o <<".">> \o SubSeq(TwentyEightDigits, 15, 28),
   SubSeq(TwentyEightDigits, 1, 14) \o <<".">> \o SubSeq(TwentyEightDigits, 15, 28) \o <<"9", "9">>,
   <<"0", ".", "0", "0", "1", "2", "3">>, <<"-", "0">>, <<"-", "0", ".", "0", "0">>,
   <<"0", "0", "7", ".", "5", "0">>,
   <<>>, <<"-">>, <<"+">>, <<".">>, <<"1", ".">>, <<".", "5">>, <<"-", ".", "5">>,
   <<"1", ".", "2", ".", "3">>, <<"1", "a">>, <<"a">>, <<"1", "-", "2">>,
   TwentyEightDigits \o <<"9", "a">>}

InitString ==
  /\ backend \in Backends
  /\ kind = "Decimal"
  /\ x \in FormatPool(backend)
  /\ y = DecimalDefault
  /\ str \in ParseLiterals
  /\ arg = NoArg
  /\ out = NoOutcome
  /\ last = "init"
  /\ n = 0

\* Decimal::parse( x.toString() )
FormatAndParse == Pure("parse(toString)", NoArg, parse(backend, toString(backend, x)))

\* Decimal::tryParse( str, result ): the outcome carries the flag and the output argument
TryParse ==
  LET r == tryParse(backend, str)
  IN  Pure("tryParse", NoArg, [thrown |-> "none", ok |-> r.ok, value |-> r.result])

\* Decimal::parse( str )
ParseLiteral == Pure("parse", NoArg, parse(backend, str))

\* Decimal{ str }
ConstructFromString == Pure("Decimal( string )", NoArg, DecimalFromString(backend, str))

\* Decimal::parse( str ).toString()
ParseAndFormat ==
  \E parsed \in {parse(backend, str)} :
    IF parsed.thrown # "none" THEN Pure("toString(parse)", NoArg, parsed)
    ELSE Pure("toString(parse)", [mode |-> "none", parsed |-> parsed.value],
              Returned(toString(backend, parsed.value)))

NextString ==
  \/ FormatAndParse
  \/ ParseAndFormat
  \/ TryParse
  \/ ParseLiteral
  \/ ConstructFromString

SpecString == InitString /\ [][NextString]_vars

----------------------------------------------------------------------------
(* SpecCompare: one comparison of two Decimals, or of a Decimal and an     *)
(* integer.  The operands are results of the constructors, of parse and of *)
(* one operation on such results.                                          *)

\* 1373540178634609812812467773 and 3489660928 * 10^-28: the first times
\* 10^28 is the second's mantissa modulo 2^128
CompareLiterals ==
  {<<"0", ".", "1">>, <<"-", "1", ".", "5">>, <<"-", "0">>,
   <<"1", "3", "7", "3", "5", "4", "0", "1", "7", "8", "6", "3", "4", "6", "0", "9", "8", "1",
     "2", "8", "1", "2", "4", "6", "7", "7", "7", "3">>,
   <<"0", ".">> \o Repeat("0", 18) \o <<"3", "4", "8", "9", "6", "6", "0", "9", "2", "8">>}

ComparePool(bk) ==
  {DecimalFromInt64(S64(k)) : k \in -MaxSmall..MaxSmall}
    \cup {DecimalFromString(bk, s).value : s \in CompareLiterals}
    \cup {DecimalNeg(DecimalFromInt64(S64(0))),
          DecimalSub(bk, DecimalFromInt64(S64(-1)), DecimalFromInt64(S64(-1))),
          Let(DecimalFromString(bk, <<"-", "0", ".", "4">>).value,
              LAMBDA d : DecimalRound(bk, d, 0, "ToZero").value),
          Let(DecimalFromString(bk, <<"1", ".", "9", "5">>).value,
              LAMBDA d : DecimalRound(bk, d, 1, "ToNearest").value),
          DecimalFromInt128(bk, MakeInt128(<<5>>, <<1>>)),
          maxValue}

\* the integers a Decimal is compared with, as 64-bit patterns
IntegerPool == {S64(k) : k \in -MaxSmall..MaxSmall}

InitCompare ==
  /\ backend \in Backends
  /\ kind = "Decimal"
  /\ \E pool \in {ComparePool(backend)} : x \in pool /\ y \in pool
  /\ str = <<>>
  /\ arg = NoArg
  /\ out = NoOutcome
  /\ last = "init"
  /\ n = 0

DecimalEqual == Pure("Decimal ==", NoArg, Returned(DecimalEq(backend, x, y)))
DecimalNotEqual == Pure("Decimal !=", NoArg, Returned(DecimalNotEq(backend, x, y)))
DecimalLessThan == Pure("Decimal <", NoArg, Returned(DecimalLess(backend, x, y)))
DecimalLessOrEqual == Pure("Decimal <=", NoArg, Returned(DecimalLessEq(backend, x, y)))
DecimalGreaterThan == Pure("Decimal >", NoArg, Returned(DecimalGreater(backend, x, y)))
DecimalGreaterOrEqual == Pure("Decimal >=", NoArg, Returned(DecimalGreaterEq(backend, x, y)))

\* x == Int128{ v }
DecimalEqualInt128 ==
  \E v \in IntegerPool :
    Pure("Decimal == Int128", [mode |-> "none", val |-> v],
         Returned(DecimalEqInt128(backend, x, Int128FromS64(v))))

\* Int128{ v } == x
Int128EqualDecimal ==
  \E v \in IntegerPool :
    Pure("Int128 == Decimal", [mode |-> "none", val |-> v],
         Returned(Int128EqDecimal(backend, Int128FromS64(v), x)))

\* x == std::int64_t{ v }
DecimalEqualInt64 ==
  \E v \in IntegerPool :
    Pure("Decimal == int64", [mode |-> "none", val |-> v],
         Returned(DecimalEqInt64(backend, x, v)))

NextCompare ==
  \/ DecimalEqual
  \/ DecimalNotEqual
  \/ DecimalLessThan
  \/ DecimalLessOrEqual
  \/ DecimalGreaterThan
  \/ DecimalGreaterOrEqual
  \/ DecimalEqualInt128
  \/ Int128EqualDecimal
  \/ DecimalEqualInt64

SpecCompare == InitCompare /\ [][NextCompare]_vars

----------------------------------------------------------------------------
(* SpecInt128: an Int128 converted to a Decimal, and an Int128 literal     *)
(* parsed                                                                  *)

\* 2^96 - 1 and 2^96, the ends of the range, and values between
ConvertPool ==
  {Int128FromS64(S64(k)) : k \in -MaxSmall..MaxSmall}
    \cup {MakeInt128(WOnes(8), WOnes(4)),
          MakeInt128(<<>>, <<0, 0, 0, 0, 1>>),
          FromSignMagnitude(TRUE, WOnes(12)),
          FromSignMagnitude(TRUE, WPow2(96)),
          MakeInt128(WOnes(8), <<255, 255, 255, 255, 255, 255, 255, 127>>),
          MakeInt128(<<>>, INT_128_MIN_NEGATIVE_HIGH),
          MakeInt128(<<1>>, INT_128_MIN_NEGATIVE_HIGH),
          MakeInt128(<<5>>, <<1>>),
          ThirtyDigits}

Int128Literals ==
  {<<"0">>, <<"-", "1">>, <<"+", "4", "2">>,
   INT_128_MAX_POSITIVE_STRING,
   <<"-">> \o INT_128_MAX_NEGATIVE_STRING,
   INT_128_MAX_NEGATIVE_STRING,
   <<"-">> \o SubSeq(INT_128_MAX_NEGATIVE_STRING, 1, 38) \o <<"9">>,
   <<"0">> \o INT_128_MAX_POSITIVE_STRING,
   Repeat("0", INT_128_MAX_DIGIT_COUNT - 1) \o <<"7">>,
   Repeat("9", INT_128_MAX_DIGIT_COUNT),
   <<"1", "2", "a">>, <<>>, <<"-">>}

InitInt128 ==
  /\ backend \in Backends
  /\ kind = "Int128"
  /\ x \in ConvertPool
  /\ y = Int128Zero
  /\ str \in Int128Literals
  /\ arg = NoArg
  /\ out = NoOutcome
  /\ last = "init"
  /\ n = 0

\* Decimal{ x }
ConstructFromInt128 ==
  Pure("Decimal( Int128 )", NoArg, Returned(DecimalFromInt128(backend, x)))

\* Int128::tryParse( str, result ), result holding x before the call
TryParseInt128 ==
  LET r == Int128TryParse(backend, str, x)
  IN  Pure("Int128::tryParse", NoArg, [thrown |-> "none", ok |-> r.ok, value |-> r.result])

\* Int128::parse( str )
ParseInt128 == Pure("Int128::parse", NoArg, Int128Parse(backend, str))

\* Int128::parse( x.toString() )
FormatAndParseInt128 ==
  \E text \in {Int128ToString(backend, x)} :
    Pure("Int128::parse(toString)", [mode |-> "none", text |-> text],
         Int128Parse(backend, text))

\* Decimal d{ x }; Decimal::tryParse( str, d ): the outcome carries the flag
\* and d after the call, the argument record d before it
TryParseOver ==
  \E before \in {DecimalFromInt128(backend, x)}, r \in {tryParse(backend, str)} :
    Pure("Decimal::tryParse", [mode |-> "none", before |-> before],
         [thrown |-> "none", ok |-> r.ok, value |-> r.result])

NextInt128 ==
  \/ ConstructFromInt128
  \/ TryParseOver
  \/ FormatAndParseInt128
  \/ TryParseInt128
  \/ ParseInt128

SpecInt128 == InitInt128 /\ [][NextInt128]_vars

----------------------------------------------------------------------------
(* SpecWide: one operation of the Int128 arithmetic on operands over the   *)
(* whole 128-bit range                                                     *)

\* 0, 1, 2, -1, -2, 2^64 - 1, 2^64 + 5, -(2^64 + 5), 2^126 + 1, 2^127 - 1,
\* -2^127, -2^127 + 1, 123456789012345678901234567890
WidePool ==
  {Int128FromS64(S64(k)) : k \in -MaxSmall..MaxSmall}
    \cup {MakeInt128(WOnes(8), <<>>),
          MakeInt128(<<5>>, <<1>>),
          FromSignMagnitude(TRUE, <<5, 0, 0, 0, 0, 0, 0, 0, 1>>),
          MakeInt128(<<1>>, <<0, 0, 0, 0, 0, 0, 0, 64>>),
          MakeInt128(WOnes(8), <<255, 255, 255, 255, 255, 255, 255, 127>>),
          MakeInt128(INT_128_MIN_NEGATIVE_LOW, INT_128_MIN_NEGATIVE_HIGH),
          MakeInt128(<<1>>, INT_128_MIN_NEGATIVE_HIGH),
          ThirtyDigits}

\* the right operands: -2^127 / -1 has no defined result on the native
\* backend, so -1 is left out
WideRightPool == WidePool \ {Int128FromS64(S64(-1))}

InitWide ==
  /\ backend \in Backends
  /\ kind = "Int128"
  /\ x \in WidePool
  /\ y \in WideRightPool
  /\ str = <<>>
  /\ arg = NoArg
  /\ out = NoOutcome
  /\ last = "init"
  /\ n = 0

\* x + y
Int128Plus == Pure("Int128 +", NoArg, Returned(Int128Add(backend, x, y)))
\* x - y
Int128Minus == Pure("Int128 -", NoArg, Returned(Int128Sub(backend, x, y)))
\* -x
Int128Negate == Pure("Int128 -()", NoArg, Returned(Int128Neg(backend, x)))
\* x / y
Int128DivideWide == Pure("Int128 /", NoArg, Int128Div(backend, x, y))

NextWide ==
  \/ Int128Plus
  \/ Int128Minus
  \/ Int128Negate
  \/ Int128DivideWide

SpecWide == InitWide /\ [][NextWide]_vars

----------------------------------------------------------------------------
(* SpecUnsigned: one comparison of an Int128 with a std::uint64_t *)

\* 0, 1, 5, 2^32, 2^64 - 1
UnsignedPool == {<<>>, <<1>>, <<5>>, <<0, 0, 0, 0, 1>>, WOnes(8)}

InitUnsigned ==
  /\ backend \in Backends
  /\ kind = "Int128"
  /\ x \in ConvertPool
  /\ y = Int128Zero
  /\ str = <<>>
  /\ arg = NoArg
  /\ out = NoOutcome
  /\ last = "init"
  /\ n = 0

Int128EqualUnsigned ==
  \E v \in UnsignedPool :
    Pure("Int128 == uint64", [mode |-> "none", val |-> v], Returned(Int128EqU64(backend, x, v)))
Int128NotEqualUnsigned ==
  \E v \in UnsignedPool :
    Pure("Int128 != uint64", [mode |-> "none", val |-> v], Returned(Int128NotEqU64(backend, x, v)))
Int128LessThanUnsigned ==
  \E v \in UnsignedPool :
    Pure("Int128 < uint64", [mode |-> "none", val |-> v], Returned(Int128LessU64(backend, x, v)))
Int128LessOrEqualUnsigned ==
  \E v \in UnsignedPool :
    Pure("Int128 <= uint64", [mode |-> "none", val |-> v], Returned(Int128LessEqU64(backend, x, v)))
Int128GreaterThanUnsigned ==
  \E v \in UnsignedPool :
    Pure("Int128 > uint64", [mode |-> "none", val |-> v], Returned(Int128GreaterU64(backend, x, v)))
Int128GreaterOrEqualUnsigned ==
  \E v \in UnsignedPool :
    Pure("Int128 >= uint64", [mode |-> "none", val |-> v],
         Returned(Int128GreaterEqU64(backend, x, v)))

NextUnsigned ==
  \/ Int128EqualUnsigned
  \/ Int128NotEqualUnsigned
  \/ Int128LessThanUnsigned
  \/ Int128LessOrEqualUnsigned
  \/ Int128GreaterThanUnsigned
  \/ Int128GreaterOrEqualUnsigned

SpecUnsigned == InitUnsigned /\ [][NextUnsigned]_vars

----------------------------------------------------------------------------
(* The numeric reading of a Decimal, used to state the properties: the     *)
(* value of d is  -1^sign * mantissa / 10^scale.  Values are compared as   *)
(* sign and magnitude at the common scale 28, with unbounded words.        *)

\* the word 10^k
TenTo(k) == Dec(<<1>> \o [i \in 1..k |-> 0])

\* mantissa < 2^96, scale <= 28, no flag bit outside the scale byte and the sign bit
WellFormed(d) ==
  /\ Len(d.flags) <= 4
  /\ WAnd(d.flags, <<255, 255, 0, 127>>) = <<>>
  /\ scale(d) <= DECIMAL_MAXIMUM_PLACES
  /\ Len(d.mantissa) <= 12

\* the scale is 0 or the mantissa is not divisible by 10
Normalized(d) == scale(d) = 0 \/ WMod(d.mantissa, <<10>>) # <<>>

\* val(d) * 10^28 as sign and magnitude, for scale(d) <= 28
Val(d) ==
  [neg |-> isNegative(d) /\ ~isZero(d),
   mag |-> WMul(d.mantissa, TenTo(DECIMAL_MAXIMUM_PLACES - scale(d)))]

\* u + v on signs and magnitudes
SignedAdd(u, v) ==
  IF u.neg = v.neg THEN [neg |-> u.neg, mag |-> WAdd(u.mag, v.mag)]
  ELSE IF WLess(u.mag, v.mag) THEN [neg |-> v.neg, mag |-> WSub(v.mag, u.mag)]
  ELSE [neg |-> u.neg /\ u.mag # v.mag, mag |-> WSub(u.mag, v.mag)]

\* d is a Decimal of scale <= 28 whose value is v
Denotes(d, v) == scale(d) <= DECIMAL_MAXIMUM_PLACES /\ Val(d) = v

\* some mantissa < 2^96 and scale <= 28 have the value v
Representable(v) ==
  \E s \in 0..DECIMAL_MAXIMUM_PLACES :
    LET qr == WDivMod(v.mag, TenTo(DECIMAL_MAXIMUM_PLACES - s))
    IN  qr.r = <<>> /\ Len(qr.q) <= 12

\* v is an Int128 holding a value of the signed 64-bit range
InS64Range(v) == v = Int128FromS64(v.lower64bits)

----------------------------------------------------------------------------
(* Properties of the arithmetic operations (SpecArith) *)

\* C1: for well-formed nonzero a and b whose exact sum is representable,
\* operator+ returns a Decimal whose value is val(a) + val(b).
AdditionIsExact ==
  (/\ last = "Decimal +"
   /\ WellFormed(x) /\ WellFormed(y)
   /\ ~isZero(x) /\ ~isZero(y)
   /\ Representable(SignedAdd(Val(x), Val(y))))
    => Denotes(out.value, SignedAdd(Val(x), Val(y)))

\* C2: for well-formed a and b whose exact sum is representable, a + b == b + a
\* under Decimal::operator==.
AdditionCommutes ==
  (/\ last = "Decimal +"
   /\ WellFormed(x) /\ WellFormed(y)
   /\ Representable(SignedAdd(Val(x), Val(y))))
    => DecimalEq(backend, out.value, DecimalAdd(backend, y, x))

\* C6: for every nonzero well-formed a, a / a == Decimal::one().
SelfDivisionIsOne ==
  (last = "Decimal /" /\ x = y /\ WellFormed(x) /\ ~isZero(x))
    => (out.thrown = "none" /\ DecimalEq(backend, out.value, DecimalOne))

\* the operations that divide by their right operand
DivisionOperations ==
  {"Int128 /", "Int128 %", "Int128 /=", "Int128 %=", "Decimal /", "Decimal /="}

\* the right operand is zero (for a Decimal: a zero mantissa, whatever the flags)
ZeroDivisor == IF kind = "Int128" THEN Int128IsZero(y) ELSE isZero(y)

\* C7: a division or modulo by a zero right operand throws std::overflow_error,
\* on both backends, and leaves the left operand as it was.
ZeroDivisorThrows ==
  [][(last' \in DivisionOperations /\ ZeroDivisor)
       => (out' = Thrown("overflow_error") /\ x' = x)]_vars

\* a compound assignment modulo zero, on the emulated backend, has thrown
ZeroDivisorThrown ==
  /\ last = "Int128 %="
  /\ backend = "emulated"
  /\ Int128IsZero(y)
  /\ ~Int128IsZero(x)
  /\ out = Thrown("overflow_error")

\* C10: for a and b in the signed 64-bit range, b # 0, the emulated operator/
\* returns what the native backend returns.
EmulatedDivideMatchesNative ==
  (/\ last = "Int128 /"
   /\ backend = "emulated"
   /\ InS64Range(x) /\ InS64Range(y)
   /\ ~Int128IsZero(y))
    => out = DivNative(x, y)

----------------------------------------------------------------------------
(* Properties of round (SpecRound) *)

\* the number of digits round discards from x
Discarded == scale(x) - arg.decimalPlacesCount

\* the mantissa of x without its discarded digits, and the discarded digits
Retained == WDivMod(x.mantissa, TenTo(Discarded))

\* 5 followed by zeros: the discarded digits of an exact tie
Tie == WMulSmall(TenTo(Discarded - 1), 5)

\* the discarded digits are above a tie, or are a tie and the retained last digit is odd
NearestEvenRoundsUp ==
  \/ WLess(Tie, Retained.r)
  \/ (Retained.r = Tie /\ WBit(Retained.q, 0) = 1)

\* C3: round(places, ToNearest) of a nonzero value of larger scale is the value
\* truncated to places digits, plus one unit exactly when the first discarded
\* digit is above 5, or is 5 with a nonzero digit after it, or the discarded
\* digits are an exact tie and the retained last digit is odd.
RoundsToNearestEven ==
  (/\ last = "round"
   /\ arg.mode = "ToNearest"
   /\ WellFormed(x)
   /\ ~isZero(x)
   /\ scale(x) > arg.decimalPlacesCount)
    => /\ out.thrown = "none"
       /\ scale(out.value) = arg.decimalPlacesCount
       /\ out.value.mantissa = IF NearestEvenRoundsUp THEN WAdd(Retained.q, <<1>>)
                                ELSE Retained.q

----------------------------------------------------------------------------
(* Properties of parse and toString (SpecString) *)

\* C4: parse(x.toString()) == x for every well-formed normalized x.
FormatParseRoundTrip ==
  (last = "parse(toString)" /\ WellFormed(x) /\ Normalized(x))
    => (out.thrown = "none" /\ DecimalEq(backend, out.value, x))

\* the digits of a literal, as numbers, and the number of them after the point
LiteralDigits(s) == [k \in 1..Cardinality({i \in 1..Len(s) : IsDigit(s[i])}) |->
                       DigitValue(s[CHOOSE i \in 1..Len(s) :
                                      IsDigit(s[i])
                                        /\ Cardinality({j \in 1..i : IsDigit(s[j])}) = k])]
FractionDigits(s) ==
  IF \E i \in 1..Len(s) : s[i] = "."
  THEN Len(s) - (CHOOSE i \in 1..Len(s) : s[i] = ".")
  ELSE 0

\* [sign]digits['.'digits]
ValidLiteral(s) ==
  LET body == IF s # <<>> /\ s[1] \in {"+", "-"} THEN SubSeq(s, 2, Len(s)) ELSE s
      dots == {i \in 1..Len(body) : body[i] = "."}
  IN  /\ body # <<>>
      /\ \A i \in 1..Len(body) : IsDigit(body[i]) \/ body[i] = "."
      /\ Cardinality(dots) <= 1
      /\ \A i \in dots : i > 1 /\ i < Len(body)

\* the digits ds with every digit after the 28th significant one (counted from
\* the first nonzero digit) replaced by zero
KeepSignificant(ds) ==
  LET first == IF \E i \in 1..Len(ds) : ds[i] # 0
               THEN CHOOSE i \in 1..Len(ds) : ds[i] # 0 /\ \A j \in 1..(i - 1) : ds[j] = 0
               ELSE 1
  IN  [i \in 1..Len(ds) |-> IF i < first + DECIMAL_MAXIMUM_PLACES THEN ds[i] ELSE 0]

\* C5: tryParse of a valid literal succeeds and yields the literal's value with
\* the digits after the 28th significant digit replaced by zero.
TryParseKeepsMagnitude ==
  (last = "tryParse" /\ ValidLiteral(str))
    => /\ out.ok
       /\ scale(out.value) <= DECIMAL_MAXIMUM_PLACES
       /\ WMul(out.value.mantissa, TenTo(FractionDigits(str)))
            = WMul(Dec(KeepSignificant(LiteralDigits(str))), TenTo(scale(out.value)))
       /\ (isNegative(out.value) <=> (str[1] = "-" /\ ~isZero(out.value)))

----------------------------------------------------------------------------
(* Properties of the calculator (Spec) *)

\* C8: every Decimal the calculator reaches has scale <= 28, a mantissa below
\* 2^96 and no flag bit outside the scale byte and the sign bit.
RepresentationInvariant == WellFormed(x) /\ WellFormed(y)

\* the four binary arithmetic operators
ArithmeticOperators == {"+", "-", "*", "/"}

\* C9: every result of +, -, * and / is normalized.
ArithmeticResultsNormalized ==
  (last \in ArithmeticOperators /\ out.thrown = "none") => Normalized(out.value)

----------------------------------------------------------------------------
(* Properties of the Int128 product and remainder (SpecArith) *)

\* C11: the emulated operator* returns the product wrapped to 128 bits (the
\* two's-complement word of a * b mod 2^128), the Int128 the native backend
\* returns for the same operands.
EmulatedMultiplyWraps ==
  (last = "Int128 *" /\ backend = "emulated")
    => /\ out.value = MulNative(x, y)
       /\ out.value = FromSignMagnitude(Int128IsNegative(x) # Int128IsNegative(y),
                                        WMul(Magnitude(x), Magnitude(y)))

\* an emulated product that does not fit 128 bits has been returned wrapped
EmulatedProductWrapped ==
  /\ last = "Int128 *"
  /\ backend = "emulated"
  /\ x = ThirtyDigits
  /\ Len(WMul(Magnitude(x), Magnitude(y))) > 16
  /\ out = Returned(MulNative(x, y))

\* C12: for b # 0, on both backends, r = a % b satisfies a == ( a / b ) * b + r,
\* |r| < |b|, and r is zero or has the sign of a.
ModuloLaw ==
  (last = "Int128 %" /\ ~Int128IsZero(y))
    => /\ out.thrown = "none"
       /\ Int128Eq(x, Int128Add(backend,
                                Int128Mul(backend, Int128Div(backend, x, y).value, y),
                                out.value))
       /\ WLess(Magnitude(out.value), Magnitude(y))
       /\ (Int128IsZero(out.value) \/ Int128IsNegative(out.value) = Int128IsNegative(x))

----------------------------------------------------------------------------
(* Properties of the comparisons (SpecCompare) *)

\* u < v on signs and magnitudes
ValLess(u, v) ==
  IF u.neg # v.neg THEN u.neg
  ELSE IF u.neg THEN WLess(v.mag, u.mag)
  ELSE WLess(u.mag, v.mag)

\* C13: a < b exactly when val(a) < val(b), zeros carrying the sign bit
\* included; exactly one of a < b, a == b, a > b holds; a <= b is a < b or
\* a == b, and a >= b is the negation of a < b, on the values.
ComparisonIsNumeric ==
  (WellFormed(x) /\ WellFormed(y))
    => /\ last = "Decimal <" => out.value = ValLess(Val(x), Val(y))
       /\ last = "Decimal <=" => out.value = (ValLess(Val(x), Val(y)) \/ Val(x) = Val(y))
       /\ last = "Decimal >=" => out.value = ~ValLess(Val(x), Val(y))
       /\ last = "Decimal >" =>
            /\ out.value = ValLess(Val(y), Val(x))
            /\ Cardinality({r \in {"<", "==", ">"} :
                              CASE r = "<" -> DecimalLess(backend, x, y)
                                [] r = "==" -> DecimalEq(backend, x, y)
                                [] r = ">" -> out.value}) = 1

\* C14: for well-formed a and b, a == b exactly when val(a) = val(b).
EqualityIsNumeric ==
  (last = "Decimal ==" /\ WellFormed(x) /\ WellFormed(y))
    => out.value = (Val(x) = Val(y))

\* the Decimal d has the value of the integer with the 64-bit pattern v
HasIntegerValue(d, v) ==
  /\ scale(d) <= DECIMAL_MAXIMUM_PLACES
  /\ Val(d) = [neg |-> Int128IsNegative(Int128FromS64(v)),
               mag |-> WMul(Magnitude(Int128FromS64(v)), TenTo(DECIMAL_MAXIMUM_PLACES))]

\* C15: a reachable Decimal d whose value is the integer n compares equal to
\* it: d == Int128( n ), Int128( n ) == d and d == int64( n ) are true; and d
\* has scale 0 (no positive scale with an all-zero fraction).
IntegerEqualityIsNumeric ==
  (/\ last \in {"Decimal == Int128", "Int128 == Decimal", "Decimal == int64"}
   /\ HasIntegerValue(x, arg.val))
    => (out.value /\ scale(x) = 0)

----------------------------------------------------------------------------
(* Properties of the Decimal product (SpecArith) *)

\* the scales s <= 28 at which the exact product of a and b, cut to s
\* fractional digits, has a mantissa below 2^96
FittingScales(a, b) ==
  {s \in 0..MinOf(DECIMAL_MAXIMUM_PLACES, scale(a) + scale(b)) :
     Len(WDiv(WMul(a.mantissa, b.mantissa), TenTo(scale(a) + scale(b) - s))) <= 12}

\* val(a) * val(b) cut toward zero at the scale s, times 10^28
TruncatedProduct(a, b, s) ==
  Let(WDiv(WMul(a.mantissa, b.mantissa), TenTo(scale(a) + scale(b) - s)), LAMBDA m :
      [neg |-> isNegative(a) # isNegative(b) /\ m # <<>>,
       mag |-> WMul(m, TenTo(DECIMAL_MAXIMUM_PLACES - s))])

\* C16: for nonzero well-formed a and b, a * b is normalized and has the sign
\* that is the XOR of the operands' signs and the value of the exact product
\* cut toward zero at the largest scale <= 28 at which the mantissa fits 96
\* bits (the exact product itself when it fits and the scales sum to 28 or less).
ProductIsTruncated ==
  (/\ last = "Decimal *"
   /\ WellFormed(x) /\ WellFormed(y)
   /\ ~isZero(x) /\ ~isZero(y))
    => Let(FittingScales(x, y), LAMBDA fitting :
           fitting # {}
             => /\ WellFormed(out.value)
                /\ Normalized(out.value)
                /\ Val(out.value) =
                     TruncatedProduct(x, y, CHOOSE s \in fitting : \A t \in fitting : t <= s))

----------------------------------------------------------------------------
(* Properties of the directed rounding modes (SpecRound) *)

\* the multiples of 10^-p next to a magnitude (times 10^28): below and above
FloorTo(mag, p) ==
  WMul(WDiv(mag, TenTo(DECIMAL_MAXIMUM_PLACES - p)), TenTo(DECIMAL_MAXIMUM_PLACES - p))

CeilTo(mag, p) ==
  IF WMod(mag, TenTo(DECIMAL_MAXIMUM_PLACES - p)) = <<>> THEN mag
  ELSE WAdd(FloorTo(mag, p), TenTo(DECIMAL_MAXIMUM_PLACES - p))

\* v rounded to a multiple of 10^-p: toward zero, down or up
Directed(v, p, mode) ==
  Let(IF (mode = "ToPositiveInfinity" /\ ~v.neg) \/ (mode = "ToNegativeInfinity" /\ v.neg)
      THEN CeilTo(v.mag, p) ELSE FloorTo(v.mag, p),
      LAMBDA mag : [neg |-> v.neg /\ mag # <<>>, mag |-> mag])

\* C17: round( p, ToZero ) discards digits, round( p, ToNegativeInfinity ) is
\* the largest multiple of 10^-p that is <= x, round( p, ToPositiveInfinity )
\* the smallest that is >= x; truncate, floor and ceiling are the p = 0 cases,
\* and a negative p behaves as p = 0.
DirectedRoundingIsExact ==
  (/\ last \in {"round", "truncate", "floor", "ceiling"}
   /\ arg.mode \in {"ToZero", "ToNegativeInfinity", "ToPositiveInfinity"}
   /\ WellFormed(x))
    => /\ out.thrown = "none"
       /\ Denotes(out.value,
                  Directed(Val(x), MinOf(MaxOf(arg.decimalPlacesCount, 0), DECIMAL_MAXIMUM_PLACES),
                           arg.mode))

----------------------------------------------------------------------------
(* Properties of the conversions (SpecInt128, SpecString) *)

\* C18: Decimal( v ) has scale 0, the sign of v, and the mantissa |v| when
\* |v| <= 2^96 - 1, else 2^96 - 1; 2^127 - 1 and -2^127 clamp, and 0 gives
\* the zero without the sign bit.
Int128ConversionClamps ==
  last = "Decimal( Int128 )"
    => /\ out.value.flags = (IF Int128IsNegative(x) THEN DECIMAL_SIGN_MASK ELSE <<>>)
       /\ out.value.mantissa = (IF Len(Magnitude(x)) <= 12 THEN Magnitude(x) ELSE WOnes(12))

\* the most negative Int128 has been converted, on the emulated backend, to
\* the negative Decimal of mantissa 2^96 - 1
MinimumClamped ==
  /\ last = "Decimal( Int128 )"
  /\ backend = "emulated"
  /\ Magnitude(x) = WPow2(127)
  /\ out.value = MakeDecimal(DECIMAL_SIGN_MASK, WOnes(12))

\* C19: Decimal::tryParse returns true exactly for [sign]digits['.'digits];
\* for every other input it returns false, and Decimal::parse and the string
\* constructor throw std::invalid_argument.
TryParseAcceptsGrammar ==
  /\ last = "tryParse" => out.ok = ValidLiteral(str)
  /\ last \in {"parse", "Decimal( string )"}
       => (out.thrown = "invalid_argument") = ~ValidLiteral(str)

\* [sign]digits
IntegerLiteral(s) ==
  LET body == IF s # <<>> /\ s[1] \in {"+", "-"} THEN SubSeq(s, 2, Len(s)) ELSE s
  IN  body # <<>> /\ \A i \in 1..Len(body) : IsDigit(body[i])

\* C20: Int128::tryParse accepts a literal [sign]digits exactly when its value
\* lies in -2^127 .. 2^127 - 1, whatever its length, and then returns that value.
Int128TryParseAcceptsRange ==
  (last = "Int128::tryParse" /\ IntegerLiteral(str))
    => Let(Dec(LiteralDigits(str)), LAMBDA magnitude :
           /\ out.ok = (IF str[1] = "-" THEN ~WLess(WPow2(127), magnitude)
                        ELSE WLess(magnitude, WPow2(127)))
           /\ out.ok => out.value = FromSignMagnitude(str[1] = "-", magnitude))

\* [-]digits without leading zeros, "0" for zero
CanonicalInteger(s) ==
  LET body == IF s # <<>> /\ s[1] = "-" THEN SubSeq(s, 2, Len(s)) ELSE s
  IN  /\ body # <<>>
      /\ \A i \in 1..Len(body) : IsDigit(body[i])
      /\ body[1] = "0" => s = <<"0">>

\* C21: Int128::parse(x.toString()) == x on both backends, and x.toString()
\* is the canonical literal of the value of x; -2^127 included.
Int128FormatParseRoundTrip ==
  last = "Int128::parse(toString)"
    => /\ out.thrown = "none"
       /\ Int128Eq(out.value, x)
       /\ CanonicalInteger(arg.text)
       /\ (arg.text[1] = "-") = Int128IsNegative(x)
       /\ Dec(LiteralDigits(arg.text)) = Magnitude(x)

\* the most negative Int128 has been printed and parsed back on the emulated
\* backend
MinimumRoundTripped ==
  /\ last = "Int128::parse(toString)"
  /\ backend = "emulated"
  /\ Magnitude(x) = WPow2(127)
  /\ arg.text = <<"-">> \o INT_128_MAX_NEGATIVE_STRING
  /\ out = Returned(x)

\* [-]digits['.'digits]: no leading zero before a further integer digit, no
\* trailing zero after the point, no sign on a zero
CanonicalDecimal(s) ==
  LET body == IF s # <<>> /\ s[1] = "-" THEN SubSeq(s, 2, Len(s)) ELSE s
      dots == {i \in 1..Len(body) : body[i] = "."}
      whole == IF dots = {} THEN Len(body) ELSE (CHOOSE i \in dots : TRUE) - 1
  IN  /\ body # <<>>
      /\ \A i \in 1..Len(body) : IsDigit(body[i]) \/ body[i] = "."
      /\ Cardinality(dots) <= 1
      /\ \A i \in dots : i > 1 /\ i < Len(body)
      /\ body[1] = "0" => whole = 1
      /\ dots # {} => body[Len(body)] # "0"
      /\ body # s => \E i \in 1..Len(body) : IsDigit(body[i]) /\ body[i] # "0"

\* C22: for a literal that tryParse accepts, parse(L).toString() is canonical
\* and denotes sign * mantissa / 10^scale of parse(L).
ParsedValueFormatsCanonically ==
  (last = "toString(parse)" /\ out.thrown = "none")
    => /\ CanonicalDecimal(out.value)
       /\ FractionDigits(out.value) <= DECIMAL_MAXIMUM_PLACES
       /\ (out.value[1] = "-") = Val(arg.parsed).neg
       /\ WMul(Dec(LiteralDigits(out.value)),
               TenTo(DECIMAL_MAXIMUM_PLACES - FractionDigits(out.value)))
            = Val(arg.parsed).mag

\* the literal of mantissa 123 at scale 5 has been parsed and printed with the
\* zeros after the point
LeadingZerosInserted ==
  /\ last = "toString(parse)"
  /\ out.thrown = "none"
  /\ arg.parsed.mantissa = <<123>>
  /\ scale(arg.parsed) = 5
  /\ out = Returned(<<"0", ".", "0", "0", "1", "2", "3">>)

----------------------------------------------------------------------------
(* Further properties of the Decimal arithmetic (SpecArith) *)

\* C23: a - a is zero for every well-formed a: isZero(), == Decimal::zero(),
\* scale 0, and printed as "0".
SelfDifferenceIsZero ==
  (last = "Decimal -" /\ x = y /\ WellFormed(x))
    => /\ isZero(out.value)
       /\ DecimalEq(backend, out.value, DecimalZero)
       /\ scale(out.value) = 0
       /\ toString(backend, out.value) = <<"0">>

----------------------------------------------------------------------------
(* Further properties of parsing (SpecInt128) *)

\* C24: when Int128::tryParse or Decimal::tryParse returns false, the output
\* argument holds the value it had before the call.
FailedParseLeavesResult ==
  /\ (last = "Int128::tryParse" /\ ~out.ok) => out.value = x
  /\ (last = "Decimal::tryParse" /\ ~out.ok) => out.value = arg.before

----------------------------------------------------------------------------
(* Properties of the comparisons with std::uint64_t (SpecUnsigned) *)

\* the value of x is below the unsigned v
BelowUnsigned(v) == Int128IsNegative(x) \/ WLess(Magnitude(x), v)
\* the value of x is the unsigned v
IsUnsigned(v) == ~Int128IsNegative(x) /\ Magnitude(x) = v

\* C25: each comparison of an Int128 with a std::uint64_t returns the
\* comparison of the two values, on both backends.
UnsignedComparisonIsNumeric ==
  /\ last = "Int128 == uint64" => out.value = IsUnsigned(arg.val)
  /\ last = "Int128 != uint64" => out.value = ~IsUnsigned(arg.val)
  /\ last = "Int128 < uint64" => out.value = BelowUnsigned(arg.val)
  /\ last = "Int128 <= uint64" => out.value = (BelowUnsigned(arg.val) \/ IsUnsigned(arg.val))
  /\ last = "Int128 > uint64" => out.value = ~(BelowUnsigned(arg.val) \/ IsUnsigned(arg.val))
  /\ last = "Int128 >= uint64" => out.value = ~BelowUnsigned(arg.val)

----------------------------------------------------------------------------
(* Properties of the Decimal quotient and product (SpecArith) *)

\* C26: a / Decimal::one() == a for every well-formed a, the result being
\* well-formed: mantissa below 2^96 and scale in 0..28.
DivisionByOneIsIdentity ==
  (last = "Decimal /" /\ y = DecimalOne /\ WellFormed(x))
    => /\ out.thrown = "none"
       /\ WellFormed(out.value)
       /\ DecimalEq(backend, out.value, x)

\* C27: the product of two nonzero Decimals of scale 0 is never zero: when
\* the mantissa product exceeds 2^96 - 1 the truncation loop stops at scale 0.
IntegerProductIsNotZero ==
  (last = "Decimal *" /\ ~isZero(x) /\ ~isZero(y) /\ scale(x) = 0 /\ scale(y) = 0)
    => ~isZero(out.value)

----------------------------------------------------------------------------
(* Properties of the emulated Int128 arithmetic (SpecArith) *)

\* C28: the emulated operator/ returns floor(a / b) for 2^64 <= a < 2^127 and
\* 1 <= b < 2^64, the tier taken when only the divisor's upper word is 0.
NarrowDivisorQuotientIsExact ==
  (/\ last = "Int128 /"
   /\ backend = "emulated"
   /\ ~Int128IsNegative(x) /\ toHigh(x) # <<>>
   /\ toHigh(y) = <<>> /\ toLow(y) # <<>>)
    => out = Returned(FromPattern(WDivMod(Pattern(x), Pattern(y)).q))

----------------------------------------------------------------------------
(* Properties of the emulated Int128 arithmetic over the whole range       *)
(* (SpecWide)                                                              *)

\* C29: for a divisor whose upper word is not 0 the emulated operator/
\* returns |a| div |b| with the sign sign(a) XOR sign(b), as the native
\* backend does; a = -2^127 included.
WideDivisorQuotientIsExact ==
  (/\ last = "Int128 /"
   /\ backend = "emulated"
   /\ toHigh(y) # <<>>)
    => out = Returned(FromSignMagnitude(Int128IsNegative(x) # Int128IsNegative(y),
                                        WDiv(Magnitude(x), Magnitude(y))))

\* p mod 2^128 as an Int128
Wrapped(p) == FromPattern(Trunc(p, 16))

\* C30: the emulated operator+, operator- and unary operator- return
\* (a + b) mod 2^128, (a - b) mod 2^128 and (-a) mod 2^128 in two's
\* complement, the words the native backend returns.
EmulatedSumsWrap ==
  backend = "emulated"
    => /\ last = "Int128 +"
            => /\ out.value = Wrapped(WAdd(Pattern(x), Pattern(y)))
               /\ out.value = AddNative(x, y)
       /\ last = "Int128 -"
            => /\ out.value = Wrapped(WSub(WAdd(WPow2(128), Pattern(x)), Pattern(y)))
               /\ out.value = SubNative(x, y)
       /\ last = "Int128 -()"
            => /\ out.value = Wrapped(WSub(WPow2(128), Pattern(x)))
               /\ out.value = NegNative(x)

\* an emulated sum has carried out of the low word and wrapped past 2^127 - 1
CarriedAndWrapped ==
  /\ last = "Int128 +"
  /\ backend = "emulated"
  /\ toLow(x) = WOnes(8) /\ ~Int128IsNegative(x) /\ ~Int128IsNegative(y)
  /\ toLow(out.value) = <<>>
  /\ Int128IsNegative(out.value)

====
